---- MODULE Spec2Model ----
(***************************************************************************)
(* A model of the authenticated API-access layer of gads-cli: the          *)
(* credential store, the saving token source, client initialisation and    *)
(* the protocol client (ListAccessibleCustomers, Search, the mutations).   *)
(***************************************************************************)
EXTENDS Integers, Sequences, FiniteSets, TLC

VARIABLES
    file,        \* the credentials file on disk
    creds,       \* the *Credentials the process holds in memory
    apiClient,   \* package variable apiClient (NoClient until api.New)
    tsCached,    \* whether the oauth2 transport holds a token it got earlier
    srcMode,     \* environment: what the wrapped oauth2 token source can do
    netMode,     \* environment: which answers the remote service gives
    tokEv,       \* record of the last savingTokenSource.Token invocation
    cmd,         \* the command line being run
    cmdPc,       \* where the command is: "start", "run", "flow", "wait", "exchange", "exit"
    cmdErr,      \* the error the command returned ("" is nil)
    loginEv,     \* what the steps of the running auth login met
    call,        \* the protocol-client call in progress
    requests,    \* every request handed to c.http.Do, in order
    responses,   \* what the transport answered to the requests of this call
    ret,         \* what the last protocol-client call returned
    exBody,      \* input of extractErrorMessage
    exMsg,       \* output of extractErrorMessage
    store,       \* record of the credential-store operations made directly
    budget       \* campaigns budget: its flags and the Search result it took

vars == <<file, creds, apiClient, tsCached, srcMode, netMode, tokEv, cmd, cmdPc, cmdErr,
          loginEv, call, requests, responses, ret, exBody, exMsg, store, budget>>

----------------------------------------------------------------------------
(* Bounds of the model. *)

\* A Search is cut after this many pages: the last page the server may send
\* has no nextPageToken.
MaxPages == 3

\* The number of entries of error.details and of each details[i].errors.
MaxErrList == 2

\* The results arrays a page can carry (json.RawMessage values).
PageRows == {<<>>, <<"r1">>, <<"r1", "r2">>, <<"r2", "r1">>}

\* Page tokens; "" is the absent nextPageToken.
PageTokens == {"", "t1", "t2"}

\* HTTP status codes the transport can hand to doRequest (redirects that
\* carry a Location are followed by net/http and never seen here).
Statuses == {200, 304, 400, 503}

SeqsUpTo(S, n) == UNION {[1..k -> S] : k \in 0..n}

----------------------------------------------------------------------------
(* Response bodies.  A body is its raw text together with what encoding/json *)
(* makes of that text: syntax "json" decodes into the target struct,         *)
(* "badtype" is well-formed JSON that json.Unmarshal rejects (a field of the *)
(* wrong type, or not an object), "text" is not JSON, "empty" has no bytes.  *)

MkBody(text, syntax, results, next, names, emsg, edetails) ==
    [text |-> text, syntax |-> syntax, results |-> results,
     nextPageToken |-> next, resourceNames |-> names,
     errMessage |-> emsg, errDetails |-> edetails]

EmptyBody == MkBody("", "empty", <<>>, "", <<>>, "", <<>>)

TextBody == MkBody("upstream connect error", "text", <<>>, "", <<>>, "", <<>>)

BadTypeBody ==
    MkBody("{\"results\":5,\"error\":{\"message\":\"outer\",\"details\":7}}",
           "badtype", <<>>, "", <<>>, "outer", <<>>)

\* A page of a search (or mutate) response: results plus optional token.
PageBody(rows, tok) ==
    MkBody(ToString(<<"results", rows, "nextPageToken", tok>>), "json",
           rows, tok, <<>>, "", <<>>)

PageBodies == {PageBody(rows, tok) : rows \in PageRows, tok \in PageTokens}

\* An error envelope {"error":{"message":m,"details":[{"errors":[{"message":..}]}]}}
ErrMessages == {"", "outer"}
InnerMessages == {"", "inner1", "inner2"}

EnvelopeBody(m, details) ==
    MkBody(ToString(<<"error", m, details>>), "json", <<>>, "", <<>>, m, details)

EnvelopeBodies ==
    {EnvelopeBody(m, d) : m \in ErrMessages,
        d \in SeqsUpTo(SeqsUpTo(InnerMessages, MaxErrList), MaxErrList)}

\* json.Unmarshal(body, &v) returns an error.
UnmarshalFails(body) == body.syntax # "json"

----------------------------------------------------------------------------
(* Errors.  type is the Go type of the error value returned: a            *)
(* *GoogleAdsError, or the *fmt.wrapError of fmt.Errorf("...: %w", err)    *)
(* with the type of the error it wraps in cause.                           *)

NoErr == [type |-> "nil", StatusCode |-> 0, Body |-> "", msg |-> "", cause |-> ""]

GoogleAdsError(status, body) ==
    [type |-> "GoogleAdsError", StatusCode |-> status, Body |-> body,
     msg |-> "", cause |-> ""]

Errorf(msg, cause) ==
    [type |-> "wrapError", StatusCode |-> 0, Body |-> "", msg |-> msg,
     cause |-> cause]

----------------------------------------------------------------------------
(* extractErrorMessage *)

\* The messages under error.details[*].errors[*], in document order.
RECURSIVE Flatten(_)
Flatten(ss) == IF ss = <<>> THEN <<>> ELSE Head(ss) \o Flatten(Tail(ss))

RECURSIVE FirstNonEmpty(_)
FirstNonEmpty(ms) ==
    IF ms = <<>> THEN ""
    ELSE IF Head(ms) # "" THEN Head(ms) ELSE FirstNonEmpty(Tail(ms))

InnerMessage(details) == FirstNonEmpty(Flatten(details))

extractErrorMessage_PreferOuter(body) ==
    IF UnmarshalFails(body) THEN body.text
    ELSE IF body.errMessage # "" THEN body.errMessage
    ELSE IF InnerMessage(body.errDetails) # "" THEN InnerMessage(body.errDetails)
    ELSE body.text

extractErrorMessage(body) ==
    IF UnmarshalFails(body) THEN body.text
    ELSE IF InnerMessage(body.errDetails) # "" THEN InnerMessage(body.errDetails)
    ELSE IF body.errMessage # "" THEN body.errMessage
    ELSE body.text

NotExtracted == [done |-> FALSE, msg |-> ""]

----------------------------------------------------------------------------
(* Credentials and the credentials file (config.Load / Save / Clear). *)

\* A customer id is a string of characters, kept as the sequence of its
\* characters so that CleanCustomerID can be computed; NoID is "".
NoID == <<>>

PlainID == <<"1", "2", "3", "4", "5", "6", "7", "8", "9", "0">>

HyphenatedID == <<"1", "2", "3", "-", "4", "5", "6", "-", "7", "8", "9", "0">>

\* CleanCustomerID: strings.ReplaceAll(id, "-", "").
CleanCustomerID(id) == SelectSeq(id, LAMBDA ch : ch # "-")

\* A time.Time: the wall-clock instant and whether it carries a monotonic
\* clock reading (time.Now() and what is derived from it does).
Time(wall, mono) == [wall |-> wall, mono |-> mono]

ZeroTime == Time(0, FALSE)

Credentials(cid, secret, dev, mgr, refresh, access, type, expiry) ==
    [ClientID |-> cid, ClientSecret |-> secret, DeveloperToken |-> dev,
     ManagerCustomerID |-> mgr, RefreshToken |-> refresh,
     AccessToken |-> access, TokenType |-> type, TokenExpiry |-> expiry]

\* &Credentials{}
EmptyCredentials == Credentials("", "", "", NoID, "", "", "", ZeroTime)

\* json.MarshalIndent(creds): time.Time is written as RFC 3339 text, which has
\* no monotonic clock reading.
MarshalCredentials_ZeroMonotonicExpiry(c) ==
    [c EXCEPT !.TokenExpiry = IF c.TokenExpiry.mono THEN ZeroTime
                              ELSE Time(c.TokenExpiry.wall, FALSE)]

MarshalCredentials(c) ==
    [c EXCEPT !.TokenExpiry = Time(c.TokenExpiry.wall, FALSE)]

\* json.Unmarshal(data, &creds) of what MarshalCredentials wrote.
UnmarshalCredentials(data) == data

\* The file: absent, holding an encoded record, holding bytes that do not
\* decode (empty or cut short), or present but not readable by this user.
FileOf(kind, rec, mode) == [kind |-> kind, rec |-> rec, mode |-> mode]

AbsentFile == FileOf("absent", EmptyCredentials, "none")

DataFile(rec, mode) == FileOf("data", rec, mode)

\* os.WriteFile(path, data, 0600) creates the file with mode 0600 when it
\* does not exist and keeps the mode of a file that exists.
WriteFileMode(f) == IF f.kind = "absent" THEN "0600" ELSE f.mode

\* os.WriteFile opens the file with O_WRONLY|O_CREATE|O_TRUNC: from then
\* until the write completes the file is empty or holds the first part of
\* the new text, which does not decode.
TruncatedFile_NotTruncated(f) == f

TruncatedFile(f) == FileOf("garbage", EmptyCredentials, WriteFileMode(f))

Load_ErrorOnMissing(f) ==
    CASE f.kind = "data" -> [creds |-> UnmarshalCredentials(f.rec), err |-> ""]
      [] f.kind = "garbage" -> [creds |-> EmptyCredentials, err |-> "decode"]
      [] OTHER -> [creds |-> EmptyCredentials, err |-> "read"]

\* Load: ([creds, err]).  A missing file is the empty record and no error.
Load(f) ==
    CASE f.kind = "absent"     -> [creds |-> EmptyCredentials, err |-> ""]
      [] f.kind = "unreadable" -> [creds |-> EmptyCredentials, err |-> "read"]
      [] f.kind = "garbage"    -> [creds |-> EmptyCredentials, err |-> "decode"]
      [] OTHER -> [creds |-> UnmarshalCredentials(f.rec), err |-> ""]

\* What the operating system lets a Save do: "ok"; "fail_early" (the path
\* cannot be found, MkdirAll fails or the file cannot be opened: nothing is
\* written); "fail_write" (the file was opened and truncated, the write
\* failed part-way).
SaveOutcomes == {"ok", "fail_early", "fail_write"}

\* Save(creds) under outcome sv: ([file, err]).
Save(c, f, sv) ==
    CASE sv = "ok" ->
           [file |-> DataFile(MarshalCredentials(c), WriteFileMode(f)), err |-> ""]
      [] sv = "fail_write" -> [file |-> TruncatedFile(f), err |-> "write"]
      [] OTHER -> [file |-> f, err |-> "open"]

Clear_ErrorOnMissing(f, ok) ==
    IF f.kind # "absent" /\ ok THEN [file |-> AbsentFile, err |-> ""]
    ELSE [file |-> f, err |-> "remove"]

\* Clear under outcome ok: ([file, err]).  Removing a missing file is no error.
Clear(f, ok) ==
    IF f.kind = "absent" THEN [file |-> f, err |-> ""]
    ELSE IF ok THEN [file |-> AbsentFile, err |-> ""]
    ELSE [file |-> f, err |-> "remove"]

----------------------------------------------------------------------------
(* savingTokenSource.Token *)

Token(access, type, expiry) ==
    [AccessToken |-> access, TokenType |-> type, Expiry |-> expiry]

NoToken == Token("", "", ZeroTime)

\* Tokens a refresh can produce (the oauth2 package rejects a response
\* without access_token; the expiry is time.Now() plus expires_in).
RefreshedTokens ==
    {Token(a, t, Time(w, TRUE)) : a \in {"a1", "a2"}, t \in {"", "Bearer", "MAC"},
                                  w \in {2}}

\* What s.source.Token() can return: the token it holds (the one on record,
\* possible only when there is an access token), a refreshed one, or an error.
SourceOutcomes(c, mode) ==
    (IF c.AccessToken # ""
        THEN {[err |-> FALSE,
               tok |-> Token(c.AccessToken, c.TokenType, c.TokenExpiry)]}
        ELSE {})
    \cup (IF mode = "refreshing" \/ c.AccessToken = ""
            THEN {[err |-> TRUE, tok |-> NoToken]}
                  \cup {[err |-> FALSE, tok |-> t] : t \in RefreshedTokens}
            ELSE {})

\* The token type written to the record (lines 75-77).
NewTokenType_Always(c, tok) == tok.TokenType

NewTokenType(c, tok) == IF tok.TokenType # "" THEN tok.TokenType ELSE c.TokenType

\* Whether Token writes the token back (line 72).
TokenChanged_Never(c, tok) == FALSE

TokenChanged(c, tok) == tok.AccessToken # c.AccessToken

UpdatedCredentials_TakeRefreshToken(c, tok) ==
    [c EXCEPT !.AccessToken = tok.AccessToken,
              !.TokenExpiry = tok.Expiry,
              !.TokenType = tok.TokenType,
              !.RefreshToken = ""]

\* The record after lines 73-77.
UpdatedCredentials(c, tok) ==
    [c EXCEPT !.AccessToken = tok.AccessToken,
              !.TokenExpiry = tok.Expiry,
              !.TokenType = NewTokenType(c, tok)]

\* What Token returns when config.Save returned saveErr (line 78 discards it).
TokenSaveError(saveErr) == ""

\* One invocation: src is the wrapped source's answer, sv what the operating
\* system does to a Save.  The result has the new record, the new file, the
\* returned (token, err) and the number of Save calls made.
SavingToken(c, f, src, sv) ==
    IF src.err
    THEN [creds |-> c, file |-> f, tok |-> NoToken, err |-> "token",
          saves |-> 0, saveErr |-> ""]
    ELSE IF TokenChanged(c, src.tok)
    THEN LET c2 == UpdatedCredentials(c, src.tok)
             sr == Save(c2, f, sv)
             e  == TokenSaveError(sr.err)
         IN  [creds |-> c2, file |-> sr.file,
              tok |-> IF e = "" THEN src.tok ELSE NoToken, err |-> e,
              saves |-> 1, saveErr |-> sr.err]
    ELSE [creds |-> c, file |-> f, tok |-> src.tok, err |-> "",
          saves |-> 0, saveErr |-> ""]

\* The record kept of an invocation.
TokenEvent(c, f, src, r) ==
    [called |-> TRUE, src |-> src, before |-> c, fileBefore |-> f,
     after |-> r.creds, fileAfter |-> r.file, tok |-> r.tok, err |-> r.err,
     saves |-> r.saves, saveErr |-> r.saveErr]

NoTokenEvent ==
    [called |-> FALSE, src |-> [err |-> FALSE, tok |-> NoToken],
     before |-> EmptyCredentials, fileBefore |-> AbsentFile,
     after |-> EmptyCredentials, fileAfter |-> AbsentFile, tok |-> NoToken,
     err |-> "", saves |-> 0, saveErr |-> ""]


\* No credential-store operation has been made directly yet.
NoStoreOp ==
    [op |-> "none", err |-> "", arg |-> EmptyCredentials,
     fileBefore |-> AbsentFile, loaded |-> EmptyCredentials, saving |-> FALSE,
     prevOp |-> "none", prevErr |-> ""]

\* What the running auth login met, and the state of its runOAuthFlow: the
\* port 8080 ("unbound", "in use" by another program, "listening",
\* "closed"), the channel codeCh, the handlers blocked sending to it, the
\* callbacks the server received, the five-minute timer, the side effects
\* made so far in their order, the credentials file the login found.
\* campaigns budget has not run: no flags, no Search result taken.
NoBudget ==
    [account |-> NoID, campaign |-> "", amount |-> 0, searched |-> FALSE,
     searchRequests |-> <<>>, searchErr |-> "", rows |-> <<>>]

NoLoginEvent ==
    [loadErr |-> "", fileErr |-> "", flowErr |-> "", exchangeErr |-> "",
     saveErr |-> "", saved |-> FALSE,
     base |-> EmptyCredentials, credFile |-> "", devFlag |-> "", mgrFlag |-> NoID,
     port |-> "unbound", bound |-> FALSE, codeCh |-> <<>>, blocked |-> <<>>,
     callbacks |-> <<>>, timer |-> "off", code |-> "",
     steps |-> <<>>, fileAtStart |-> AbsentFile,
     tok |-> [AccessToken |-> "", RefreshToken |-> "", TokenType |-> "",
              Expiry |-> ZeroTime]]

----------------------------------------------------------------------------
(* The protocol client. *)

NoClient == [init |-> FALSE, developerToken |-> "", loginCustomerID |-> NoID]

\* api.New(httpClient, developerToken, loginCustomerID)
New(developerToken, loginCustomerID) ==
    [init |-> TRUE, developerToken |-> developerToken,
     loginCustomerID |-> loginCustomerID]

NoPayload == [query |-> "", hasPageToken |-> FALSE, pageToken |-> "",
              operations |-> <<>>]

SearchPayload_NoPageToken(query, pageToken) ==
    [query |-> query, hasPageToken |-> FALSE, pageToken |-> "",
     operations |-> <<>>]

\* map[string]string{"query": query} plus "pageToken" when it is not empty
SearchPayload(query, pageToken) ==
    [query |-> query, hasPageToken |-> pageToken # "", pageToken |-> pageToken,
     operations |-> <<>>]

\* map[string]any{"operations": operations}
MutatePayload(operations) == [NoPayload EXCEPT !.operations = operations]

\* http.NewRequest plus the headers doRequest sets (lines 32-35).
Request_LoginHeaderAlways(c, method, path, payload) ==
    [method |-> method, path |-> path, payload |-> payload,
     developerToken |-> c.developerToken,
     hasLoginCustomerID |-> TRUE,
     loginCustomerID |-> c.loginCustomerID]

Request(c, method, path, payload) ==
    [method |-> method, path |-> path, payload |-> payload,
     developerToken |-> c.developerToken,
     hasLoginCustomerID |-> c.loginCustomerID # NoID,
     loginCustomerID |-> c.loginCustomerID]

\* What c.http.Do and io.ReadAll can give doRequest.
DoError == [kind |-> "error", status |-> 0, body |-> EmptyBody]

ReadError(status) == [kind |-> "readerr", status |-> status, body |-> EmptyBody]

Response(status, body) == [kind |-> "response", status |-> status, body |-> body]

\* The bodies the remote service sends besides pages.
NamesBody ==
    MkBody("{\"resourceNames\":[\"customers/1\",\"customers/2\"]}", "json",
           <<>>, "", <<"customers/1", "customers/2">>, "", <<>>)

OtherBodies ==
    {EmptyBody, TextBody, NamesBody, EnvelopeBody("outer", <<>>),
     EnvelopeBody("outer", << <<"", "inner1">> >>)}

\* A service that can answer anything, and one with a few answers.
FullOutcomes ==
    {DoError, ReadError(200)}
    \cup {Response(st, b) : st \in Statuses, b \in PageBodies \cup OtherBodies}

SmallOutcomes ==
    {DoError}
    \cup {Response(200, PageBody(<<"r1">>, t)) : t \in {"", "t1"}}
    \cup {Response(200, TextBody), Response(400, EnvelopeBody("outer", <<>>))}

\* The answers to the pages of a search: pages with and without rows and
\* with any nextPageToken, a failed transport, a failure status, a body
\* that does not decode.
PageOutcomes ==
    {DoError, Response(503, TextBody), Response(200, TextBody)}
    \cup {Response(200, PageBody(rows, t)) :
             rows \in {<<>>, <<"r1">>}, t \in PageTokens}

\* A row of the search of campaigns budget as the service sends it: with
\* the id of the campaign's budget, which the REST interface gives as a
\* string.
RowWithBudget(id) == "{\"campaignBudget\":{\"id\":\"" \o id \o "\"}}"

\* The answers to campaigns budget: pages whose rows carry a budget id, no
\* campaignBudget, or an id that is a number, which does not decode into
\* CampaignRow; a failed transport; a failure status.
BudgetOutcomes ==
    {DoError, Response(400, EnvelopeBody("outer", <<>>))}
    \cup {Response(200, PageBody(rows, t)) :
             rows \in {<<>>, <<RowWithBudget("b7"), RowWithBudget("b8")>>,
                       <<"{\"campaign\":{\"id\":\"111\"}}">>,
                       <<"{\"campaignBudget\":{\"id\":7}}">>},
             t \in {"", "t1"}}

NetOutcomes(mode) ==
    IF mode = "full" THEN FullOutcomes
    ELSE IF mode = "pages" THEN PageOutcomes
    ELSE IF mode = "budget" THEN BudgetOutcomes ELSE SmallOutcomes

\* The status test of doRequest (line 48).
IsErrorStatus_Only5xx(status) == status >= 500

IsErrorStatus(status) == status >= 400

\* The error doRequest returns when c.http.Do fails (line 39).
TransportError_AsRemote == GoogleAdsError(0, "request failed")

TransportError == Errorf("request failed", "url.Error")

\* The error of a response whose body does not decode (lines 118, 140, 183).
ParseError(msg) == Errorf(msg, "json")

HTTPStatusText(status) == "HTTP " \o ToString(status)

\* doRequest given what the transport did: ([body, err]).
doRequest(out) ==
    IF out.kind = "error" THEN [body |-> EmptyBody, err |-> TransportError]
    ELSE IF out.kind = "readerr"
    THEN [body |-> EmptyBody, err |-> Errorf("reading response", "io")]
    ELSE IF IsErrorStatus(out.status)
    THEN LET msg == extractErrorMessage(out.body)
         IN  [body |-> EmptyBody,
              err |-> GoogleAdsError(out.status,
                         IF msg = "" THEN HTTPStatusText(out.status) ELSE msg)]
    ELSE [body |-> out.body, err |-> NoErr]

\* The requests one doRequest hands to the transport (line 37: one Do).
Issued_RetryOnFailure(req, out) ==
    IF doRequest(out).err # NoErr THEN <<req, req>> ELSE <<req>>

Issued(req, out) == <<req>>

\* c.http.Do over the oauth2 transport: the transport asks the saving token
\* source for a token unless it holds one it still takes for valid; a failed
\* token fetch fails the Do.  src and sv are as in SavingToken; reqs and resps
\* are the requests and answers of the call so far.
HttpDo(reqs, resps, req, out, askToken, src, sv) ==
    /\ requests' = reqs \o Issued(req, out)
    /\ responses' = Append(resps, out)
    /\ IF askToken
       THEN LET r == SavingToken(creds, file, src, sv)
            IN  /\ (r.err # "") => out = DoError
                /\ creds' = r.creds
                /\ file' = r.file
                /\ tokEv' = TokenEvent(creds, file, src, r)
                /\ tsCached' = (r.err = "")
       ELSE UNCHANGED <<creds, file, tokEv, tsCached>>

\* The transport asks again only once its token has expired.
AskChoices == IF tsCached /\ srcMode = "stable" THEN {FALSE}
              ELSE IF tsCached THEN {FALSE, TRUE} ELSE {TRUE}

SrcChoices(ask) == IF ask THEN SourceOutcomes(creds, srcMode)
                   ELSE {[err |-> FALSE, tok |-> NoToken]}

SaveChoices(ask, src) ==
    IF ask /\ ~src.err /\ TokenChanged(creds, src.tok) THEN SaveOutcomes ELSE {"ok"}

NoCall == [op |-> "none", account |-> NoID, customerID |-> NoID, query |-> "", pageToken |-> "",
           allResults |-> <<>>]

NoRet == [op |-> "none", account |-> NoID, rows |-> <<>>, names |-> <<>>, err |-> NoErr,
          kind |-> "", operations |-> <<>>]

\* The values of --account: with and without hyphens.
AccountFlags == {PlainID, HyphenatedID}

Queries == {"SELECT campaign.id FROM campaign"}

\* The resource kinds of the four Mutate methods (lines 153, 159, 165, 171).
MutateKinds == {"campaigns", "campaignBudgets", "adGroups", "adGroupCriteria"}

OperationBatches == {<<"op1">>, <<"op1", "op2">>, <<"op2", "op1">>}

\* "%s/customers/%s/<kind>:mutate" (lines 153, 159, 165, 171).
MutatePath_SharedEndpoint(kind, customerID) ==
    <<"customers", customerID, "campaigns:mutate">>

MutatePath(kind, customerID) == <<"customers", customerID, kind \o ":mutate">>

\* A protocol-client call can start: the command body is running, the
\* client exists, no other call is in progress and the caller has taken the
\* result of the call before.
CanCall == cmdPc = "run" /\ apiClient.init /\ call.op = "none" /\ ret.op = "none"

\* The caller takes what the call returned.
TakeResult ==
    /\ cmdPc = "run"
    /\ cmd \notin {<<"gads-cli", "auth", "check">>, <<"gads-cli", "accounts", "list">>}
    /\ ret.op # "none"
    /\ ret' = NoRet
    /\ requests' = <<>>
    /\ responses' = <<>>
    /\ UNCHANGED <<file, creds, apiClient, tsCached, srcMode, netMode, tokEv,
                   cmd, cmdPc, cmdErr, loginEv, call, exBody, exMsg, store, budget>>

\* Search, line 142.
AppendResults_Prepend(allResults, results) == results \o allResults

AppendResults(allResults, results) == allResults \o results

\* Search, lines 136 and 140: the rows returned with an error.
FailureRows_Partial(allResults) == allResults

FailureRows(allResults) == <<>>

LoopEnds_OnRepeatedToken(pageToken, nextPageToken) ==
    nextPageToken = "" \/ nextPageToken = pageToken

\* Search, lines 143-145: the loop ends when the page has no nextPageToken
\* (pageToken is the token the page was asked with).
LoopEnds(pageToken, nextPageToken) == nextPageToken = ""

\* Search, lines 125-127.
SearchStart(account, customerID, query) ==
    /\ cmdPc = "run"
    /\ apiClient.init
    /\ call.op = "none"
    /\ call' = [op |-> "search", account |-> account,
                customerID |-> customerID, query |-> query,
                pageToken |-> "", allResults |-> <<>>]
    /\ requests' = <<>>
    /\ responses' = <<>>
    /\ ret' = NoRet
    /\ UNCHANGED <<file, creds, apiClient, tsCached, srcMode, netMode, tokEv,
                   cmd, cmdPc, cmdErr, loginEv, exBody, exMsg, store, budget>>

\* Search, one turn of the loop (lines 130-146) and, when the loop ends, the
\* return (lines 136, 140, 148).
SearchPage(out, ask, src, sv) ==
    /\ call.op = "search"
    /\ Len(responses) + 1 < MaxPages
         \/ out.kind # "response"
         \/ out.body.nextPageToken = ""
    /\ LET req == Request(apiClient, "POST",
                          <<"customers", call.customerID, "googleAds:search">>,
                          SearchPayload(call.query, call.pageToken))
           r   == doRequest(out)
       IN  /\ HttpDo(requests, responses, req, out, ask, src, sv)
           /\ IF r.err # NoErr
              THEN /\ ret' = [op |-> "search", account |-> call.account,
                              rows |-> FailureRows(call.allResults),
                              names |-> <<>>, err |-> r.err,
                              kind |-> "", operations |-> <<>>]
                   /\ call' = NoCall
              ELSE IF UnmarshalFails(r.body)
              THEN /\ ret' = [op |-> "search", account |-> call.account,
                              rows |-> FailureRows(call.allResults),
                              names |-> <<>>,
                              err |-> ParseError("parsing search response"),
                              kind |-> "", operations |-> <<>>]
                   /\ call' = NoCall
              ELSE LET all == AppendResults(call.allResults, r.body.results)
                   IN  IF LoopEnds(call.pageToken, r.body.nextPageToken)
                       THEN /\ ret' = [op |-> "search", account |-> call.account, rows |-> all,
                                       names |-> <<>>, err |-> NoErr,
                                       kind |-> "", operations |-> <<>>]
                            /\ call' = NoCall
                       ELSE /\ call' = [call EXCEPT
                                          !.allResults = all,
                                          !.pageToken = r.body.nextPageToken]
                            /\ UNCHANGED ret
    /\ UNCHANGED <<apiClient, srcMode, netMode, cmd, cmdPc, cmdErr, loginEv,
                   exBody, exMsg, store, budget>>

\* ListAccessibleCustomers (lines 110-121) with get (lines 87-94).
ListAccessibleCustomers(out, ask, src, sv) ==
    /\ CanCall
    /\ LET req == Request(apiClient, "GET",
                          <<"customers:listAccessibleCustomers">>, NoPayload)
           r   == doRequest(out)
       IN  /\ HttpDo(<<>>, <<>>, req, out, ask, src, sv)
           /\ ret' = IF r.err # NoErr
                     THEN [op |-> "list", account |-> NoID, rows |-> <<>>, names |-> <<>>,
                           err |-> r.err,
                           kind |-> "", operations |-> <<>>]
                     ELSE IF UnmarshalFails(r.body)
                     THEN [op |-> "list", account |-> NoID, rows |-> <<>>, names |-> <<>>,
                           err |-> ParseError("parsing response"),
                           kind |-> "", operations |-> <<>>]
                     ELSE [op |-> "list", account |-> NoID, rows |-> <<>>,
                           names |-> r.body.resourceNames, err |-> NoErr,
                           kind |-> "", operations |-> <<>>]
    /\ UNCHANGED <<apiClient, srcMode, netMode, cmd, cmdPc, cmdErr, loginEv,
                   call, exBody, exMsg, store, budget>>

\* MutateCampaigns, MutateCampaignBudgets, MutateAdGroups,
\* MutateAdGroupCriteria (lines 152-173) with mutate (lines 175-186).
Mutate(kind, account, customerID, operations, out, ask, src, sv) ==
    /\ CanCall
    /\ LET req == Request(apiClient, "POST",
                          MutatePath(kind, customerID),
                          MutatePayload(operations))
           r   == doRequest(out)
       IN  /\ HttpDo(<<>>, <<>>, req, out, ask, src, sv)
           /\ ret' = IF r.err # NoErr
                     THEN [op |-> "mutate", account |-> account, rows |-> <<>>, names |-> <<>>,
                           err |-> r.err,
                           kind |-> kind, operations |-> operations]
                     ELSE IF UnmarshalFails(r.body)
                     THEN [op |-> "mutate", account |-> account, rows |-> <<>>, names |-> <<>>,
                           err |-> ParseError("parsing mutate response"),
                           kind |-> kind, operations |-> operations]
                     ELSE [op |-> "mutate", account |-> account, rows |-> r.body.results,
                           names |-> <<>>, err |-> NoErr,
                           kind |-> kind, operations |-> operations]
    /\ UNCHANGED <<apiClient, srcMode, netMode, cmd, cmdPc, cmdErr, loginEv,
                   call, exBody, exMsg, store, budget>>

\* The three calls with what the environment does drawn from its sets.
SearchPageStep ==
    /\ call.op = "search"
    /\ \E out \in NetOutcomes(netMode), ask \in AskChoices :
          \E src \in SrcChoices(ask) : \E sv \in SaveChoices(ask, src) :
             SearchPage(out, ask, src, sv)

SearchStep ==
    \/ /\ CanCall
       /\ cmd \notin {<<"gads-cli", "auth", "check">>,
                      <<"gads-cli", "accounts", "list">>}
       /\ \E account \in AccountFlags, query \in Queries :
             SearchStart(account, CleanCustomerID(account), query)
    \/ SearchPageStep

ListStep ==
    /\ CanCall
    /\ \E out \in NetOutcomes(netMode), ask \in AskChoices :
          \E src \in SrcChoices(ask) : \E sv \in SaveChoices(ask, src) :
             ListAccessibleCustomers(out, ask, src, sv)

MutateStep ==
    /\ CanCall
    /\ cmd \notin {<<"gads-cli", "auth", "check">>,
                   <<"gads-cli", "accounts", "list">>}
    /\ \E kind \in MutateKinds, account \in AccountFlags,
          operations \in OperationBatches :
          \E out \in NetOutcomes(netMode), ask \in AskChoices :
             \E src \in SrcChoices(ask) : \E sv \in SaveChoices(ask, src) :
                Mutate(kind, account, CleanCustomerID(account), operations,
                       out, ask, src, sv)

----------------------------------------------------------------------------
(* The protocol client alone: a client built from a complete record whose  *)
(* access token stays valid, against a service that can answer anything.   *)

StoredTime == Time(1, FALSE)

CompleteRecords ==
    {Credentials("id", "secret", "dev-token", mgr, "refresh", "a0", "Bearer",
                 StoredTime) : mgr \in {NoID, HyphenatedID}}

InitClient ==
    /\ \E c \in CompleteRecords :
          /\ file = DataFile(MarshalCredentials(c), "0600")
          /\ creds = c
          /\ apiClient = New(c.DeveloperToken, c.ManagerCustomerID)
    /\ tsCached = FALSE
    /\ srcMode = "stable"
    /\ netMode = "full"
    /\ tokEv = NoTokenEvent
    /\ cmd = <<"gads-cli", "campaigns", "list">>
    /\ cmdPc = "run"
    /\ cmdErr = ""
    /\ loginEv = NoLoginEvent
    /\ call = NoCall
    /\ requests = <<>>
    /\ responses = <<>>
    /\ ret = NoRet
    /\ exBody = EmptyBody
    /\ exMsg = NotExtracted
    /\ store = NoStoreOp
    /\ budget = NoBudget

NextClient == SearchStep \/ ListStep \/ MutateStep \/ TakeResult

SpecClient == InitClient /\ [][NextClient]_vars

----------------------------------------------------------------------------
(* Properties of the protocol client (checked under SpecClient). *)

\* A call has returned and its result has not been taken yet.
Returned(op) == ret.op = op /\ call.op = "none"

LastResponse == responses[Len(responses)]

Is2xx(status) == status >= 200 /\ status <= 299

\* rs is a sequence of N pages, all but the last with a nextPageToken.
IsPageSequence(rs) ==
    /\ rs # <<>>
    /\ \A i \in 1..Len(rs) :
          /\ rs[i].kind = "response"
          /\ Is2xx(rs[i].status)
          /\ rs[i].body.syntax = "json"
          /\ (rs[i].body.nextPageToken = "") <=> (i = Len(rs))

RowsInOrder(rs) == Flatten([i \in 1..Len(rs) |-> rs[i].body.results])

\* C1: when the service answers a Search with N pages, every page but the
\* last carrying a nextPageToken, Search issues exactly N POST requests and
\* returns the rows of all pages, in page order and within a page in the
\* page's order.
C1_SearchAggregation ==
    (Returned("search") /\ IsPageSequence(responses)) =>
        /\ ret.err = NoErr
        /\ Len(requests) = Len(responses)
        /\ \A i \in 1..Len(requests) : requests[i].method = "POST"
        /\ ret.rows = RowsInOrder(responses)

C1_Witness ==
    /\ Returned("search")
    /\ IsPageSequence(responses)
    /\ Len(responses) = 3
    /\ Len(responses[1].body.results) = 2
    /\ responses[2].body.results = <<"r2", "r1">>
    /\ Len(ret.rows) >= 5

\* The request of a page failed, as the claim counts failures: a transport
\* error, a response outside 200-299, or a body that does not decode.
PageFailedNon2xx(out) ==
    \/ out.kind # "response"
    \/ ~Is2xx(out.status)
    \/ out.body.syntax # "json"

\* The request of a page failed, as the code counts failures.
PageFailed(out) ==
    \/ out.kind # "response"
    \/ out.status >= 400
    \/ out.body.syntax # "json"

\* C2 as claimed: if the request of any page fails (transport error, non-2xx
\* response or unparsable body) Search returns an error and no rows.
C2_Original ==
    (Returned("search") /\ \E k \in 1..Len(responses) :
                              PageFailedNon2xx(responses[k])) =>
        /\ ret.err # NoErr
        /\ ret.rows = <<>>

\* C2 amended: if the request of any page fails (transport error, response
\* with status >= 400, or unparsable body) Search returns an error and no
\* rows, whatever the pages before had delivered; rows are returned only
\* with no error and only after the page without nextPageToken.
C2_SearchFailsAtomically ==
    Returned("search") =>
        /\ (\E k \in 1..Len(responses) : PageFailed(responses[k])) =>
              (ret.err # NoErr /\ ret.rows = <<>>)
        /\ ret.err # NoErr => ret.rows = <<>>
        /\ ret.err = NoErr =>
              (~PageFailed(LastResponse) /\ LastResponse.body.nextPageToken = "")

C2_Witness ==
    /\ Returned("search")
    /\ Len(responses) = 3
    /\ responses[1].body.results # <<>>
    /\ responses[2].body.results # <<>>
    /\ PageFailed(responses[3])
    /\ ret.err # NoErr

\* C7: the protocol client never issues a request again.  Every request has
\* its one answer, a ListAccessibleCustomers or a mutation issues exactly one
\* request whether it succeeds or fails, a failed request is the last of its
\* call, and a Search that fails on page k has issued exactly k requests.
C7_NoRetry ==
    /\ Len(requests) = Len(responses)
    /\ \A i \in 1..Len(responses) : PageFailed(responses[i]) => i = Len(requests)
    /\ (Returned("list") \/ Returned("mutate")) => Len(requests) = 1
    /\ (Returned("search") /\ ret.err # NoErr) =>
          /\ PageFailed(LastResponse)
          /\ \A i \in 1..(Len(requests) - 1) : ~PageFailed(responses[i])

C7_Witness ==
    /\ Returned("search")
    /\ ret.err # NoErr
    /\ Len(requests) = 2
    /\ LastResponse.kind = "error"

\* C9 as claimed: every response with a status outside 200-299 makes the
\* call fail with a GoogleAdsError carrying that status.
C9_Original ==
    \A i \in 1..Len(responses) :
       (responses[i].kind = "response" /\ ~Is2xx(responses[i].status)) =>
          /\ i = Len(responses)
          /\ ret.err.type = "GoogleAdsError"
          /\ ret.err.StatusCode = responses[i].status

\* C9 amended: every response with a status of 400 or more makes the call
\* fail with a GoogleAdsError carrying that status; every response with a
\* status below 400 (1xx and 3xx included) has its body returned for
\* parsing, so the call succeeds or fails with a parse error, never with a
\* GoogleAdsError.
C9_StatusClassification ==
    \A i \in 1..Len(responses) :
       /\ (responses[i].kind = "response" /\ responses[i].status >= 400) =>
             /\ i = Len(responses)
             /\ ret.err = GoogleAdsError(responses[i].status, ret.err.Body)
       /\ (responses[i].kind = "response" /\ responses[i].status < 400
             /\ i = Len(responses) /\ call.op = "none") =>
             /\ ret.err.type # "GoogleAdsError"
             /\ (ret.err = NoErr) <=> (responses[i].body.syntax = "json")

C9_Witness ==
    /\ Returned("mutate")
    /\ LastResponse.kind = "response"
    /\ LastResponse.status = 503
    /\ ret.err.type = "GoogleAdsError"
    /\ ret.err.StatusCode = 503

----------------------------------------------------------------------------
(* extractErrorMessage alone, on every body of the bounded set. *)

ExtractInputs ==
    EnvelopeBodies \cup PageBodies
      \cup {EmptyBody, TextBody, BadTypeBody, NamesBody}

Extract ==
    /\ ~exMsg.done
    /\ exMsg' = [done |-> TRUE, msg |-> extractErrorMessage(exBody)]
    /\ UNCHANGED <<file, creds, apiClient, tsCached, srcMode, netMode, tokEv,
                   cmd, cmdPc, cmdErr, loginEv, call, requests, responses, ret,
                   exBody, store, budget>>

InitExtract ==
    /\ exBody \in ExtractInputs
    /\ exMsg = NotExtracted
    /\ store = NoStoreOp
    /\ budget = NoBudget
    /\ file = AbsentFile
    /\ creds = EmptyCredentials
    /\ apiClient = NoClient
    /\ tsCached = FALSE
    /\ srcMode = "stable"
    /\ netMode = "full"
    /\ tokEv = NoTokenEvent
    /\ cmd = <<"gads-cli">>
    /\ cmdPc = "exit"
    /\ cmdErr = ""
    /\ loginEv = NoLoginEvent
    /\ call = NoCall
    /\ requests = <<>>
    /\ responses = <<>>
    /\ ret = NoRet

NextExtract == Extract

SpecExtract == InitExtract /\ [][NextExtract]_vars

\* Position (i, j) comes before (k, l) in document order.
Before(i, j, k, l) == i < k \/ (i = k /\ j < l)

\* m is the first non-empty message under details[*].errors[*].
IsFirstInner(m, details) ==
    \E i \in 1..Len(details) : \E j \in 1..Len(details[i]) :
       /\ details[i][j] = m
       /\ m # ""
       /\ \A k \in 1..Len(details) : \A l \in 1..Len(details[k]) :
             Before(k, l, i, j) => details[k][l] = ""

\* C8: for a body that decodes as the envelope the extracted message is the
\* first non-empty message under error.details[*].errors[*] in document
\* order when there is one, else the non-empty outer error.message, else the
\* raw body; for a body that does not decode it is the raw body.
C8_ErrorMessageExtraction ==
    exMsg.done =>
        IF exBody.syntax # "json" THEN exMsg.msg = exBody.text
        ELSE IF \E m \in InnerMessages : IsFirstInner(m, exBody.errDetails)
        THEN IsFirstInner(exMsg.msg, exBody.errDetails)
        ELSE IF exBody.errMessage # "" THEN exMsg.msg = exBody.errMessage
        ELSE exMsg.msg = exBody.text

C8_Witness ==
    /\ exMsg.done
    /\ exBody.syntax = "json"
    /\ exBody.errMessage = "outer"
    /\ exBody.errDetails = << <<"">>, <<"", "inner2">> >>
    /\ exMsg.msg = "inner2"

----------------------------------------------------------------------------
(* Commands: the pre-run hook, initAPIClient and the auth subcommands. *)

CampaignsList == <<"gads-cli", "campaigns", "list">>
CampaignsPause == <<"gads-cli", "campaigns", "pause">>
AccountsList == <<"gads-cli", "accounts", "list">>
AuthCheck == <<"gads-cli", "auth", "check">>
AuthLogin == <<"gads-cli", "auth", "login">>
AuthLogout == <<"gads-cli", "auth", "logout">>
AuthStatus == <<"gads-cli", "auth", "status">>
Info == <<"gads-cli", "info">>

Commands == {CampaignsList, CampaignsPause, AccountsList, AuthCheck, AuthLogin,
             AuthLogout, AuthStatus, Info}

\* cmd.Name()
Name(c) == c[Len(c)]

\* isAuthCommand: cmd or one of its parents is named "auth".
isAuthCommand(c) == \E i \in 1..Len(c) : c[i] = "auth"

isSkipPreRunCommand(c) ==
    isAuthCommand(c) \/ Name(c) \in {"update", "info", "help"}

MissingRefreshToken_OrAccessToken(c) == c.RefreshToken = "" \/ c.AccessToken = ""

\* The tests of initAPIClient (lines 88 and 91).
MissingRefreshToken(c) == c.RefreshToken = ""

MissingDeveloperToken_Unchecked(c) == FALSE

MissingDeveloperToken(c) == c.DeveloperToken = ""

\* What initAPIClient returns for a failed Load (lines 85-87).
InitLoadError(loadErr) ==
    IF loadErr # "" THEN "failed to load credentials" ELSE ""

\* initAPIClient on file f: ([err, creds, client]).
initAPIClient(f) ==
    LET l == Load(f)
    IN  IF InitLoadError(l.err) # ""
        THEN [err |-> InitLoadError(l.err), creds |-> EmptyCredentials,
              client |-> NoClient]
        ELSE IF MissingRefreshToken(l.creds)
        THEN [err |-> "not authenticated", creds |-> EmptyCredentials,
              client |-> NoClient]
        ELSE IF MissingDeveloperToken(l.creds)
        THEN [err |-> "developer token not set", creds |-> EmptyCredentials,
              client |-> NoClient]
        ELSE [err |-> "", creds |-> l.creds,
              client |-> New(l.creds.DeveloperToken, l.creds.ManagerCustomerID)]

\* The command line is run: PersistentPreRunE (lines 51-56), which calls
\* initAPIClient unless the command is skipped, and for auth check the
\* initAPIClient its RunE starts with (auth.go line 204).
RunCommand(c) ==
    /\ cmdPc = "start"
    /\ cmd' = c
    /\ IF ~isSkipPreRunCommand(c) \/ c = AuthCheck
       THEN LET r == initAPIClient(file)
            IN  /\ creds' = r.creds
                /\ apiClient' = r.client
                /\ cmdErr' = r.err
                /\ cmdPc' = IF r.err # "" THEN "exit" ELSE "run"
       ELSE /\ cmdPc' = "run"
            /\ UNCHANGED <<creds, apiClient, cmdErr>>
    /\ UNCHANGED <<file, tsCached, srcMode, netMode, tokEv, loginEv, call,
                   requests, responses, ret, exBody, exMsg, store, budget>>

\* loadCredsForAccount (accounts.go lines 113-120) as accounts list uses it
\* (line 32: the error is dropped and the id is "" then).
loadCredsForAccount(f) ==
    IF Load(f).err # "" THEN NoID ELSE Load(f).creds.ManagerCustomerID

\* accounts list after its ListAccessibleCustomers succeeded (accounts.go
\* lines 31-58): with a manager id on record it searches customer_client
\* under that id.
AccountsListSearch ==
    /\ cmd = AccountsList
    /\ ret.op = "list"
    /\ ret.err = NoErr
    /\ loadCredsForAccount(file) # NoID
    /\ \E query \in Queries :
          SearchStart(loadCredsForAccount(file), loadCredsForAccount(file), query)

\* A command that called the protocol client returns: its error is the
\* error of the call (auth check wraps it, line 210).
CommandReturn ==
    /\ cmdPc = "run"
    /\ apiClient.init
    /\ call.op = "none"
    /\ ret.op # "none"
    /\ (cmd = AccountsList /\ ret.op = "list" /\ ret.err = NoErr) =>
          loadCredsForAccount(file) = NoID
    /\ cmd = <<"gads-cli", "campaigns", "budget">> => ret.op = "mutate"
    /\ cmdPc' = "exit"
    /\ cmdErr' = IF ret.err = NoErr THEN ""
                 ELSE IF cmd = AuthCheck THEN "credentials check failed"
                 ELSE IF cmd = AccountsList /\ ret.op = "search" THEN ""
                 ELSE "call failed"
    /\ UNCHANGED <<file, creds, apiClient, tsCached, srcMode, netMode, tokEv,
                   cmd, loginEv, call, requests, responses, ret, exBody, exMsg, store, budget>>

\* auth logout (auth.go lines 249-255).
Logout(ok) ==
    /\ cmdPc = "run"
    /\ cmd = AuthLogout
    /\ LET r == Clear(file, ok)
       IN  /\ file' = r.file
           /\ cmdErr' = IF r.err # "" THEN "removing credentials" ELSE ""
    /\ cmdPc' = "exit"
    /\ UNCHANGED <<creds, apiClient, tsCached, srcMode, netMode, tokEv, cmd,
                   loginEv, call, requests, responses, ret, exBody, exMsg, store, budget>>

\* auth status (auth.go lines 222-240) and info (part_001 lines 133-162):
\* they load the record and print.
ShowStatus ==
    /\ cmdPc = "run"
    /\ cmd \in {AuthStatus, Info}
    /\ cmdErr' = IF cmd = AuthStatus /\ Load(file).err # ""
                 THEN "loading credentials" ELSE ""
    /\ cmdPc' = "exit"
    /\ UNCHANGED <<file, creds, apiClient, tsCached, srcMode, netMode, tokEv,
                   cmd, loginEv, call, requests, responses, ret, exBody, exMsg, store, budget>>

----------------------------------------------------------------------------
(* auth login (runAuthLogin). *)

\* --credentials-file: not given, a file that parses, a file that does not.
CredentialsFiles == {"", "client_secret.json", "broken.json"}

DeveloperTokenFlags == {"", "flag-dev-token"}

FlagManagerID == <<"9", "9", "9", "-", "0", "0", "0", "-", "1", "1", "1", "1">>

TypedManagerID == <<"5", "5", "5", "0", "0", "0", "2", "2", "2", "2">>

ManagerAccountFlags == {NoID, FlagManagerID}

\* The record runAuthLogin starts from (lines 53-56): a failed Load is
\* replaced by the empty record.
LoginBaseline(l) == IF l.err # "" THEN EmptyCredentials ELSE l.creds

\* What runAuthLogin returns for a failed Load (none: line 55 goes on).
LoginLoadError(loadErr) == ""

\* Lines 59-89: the client id and secret, the developer token and the
\* manager account from the flags, else from the record, else prompted.
LoginCollect(c, credFile, devFlag, mgrFlag) ==
    LET c1 == IF credFile # ""
              THEN [c EXCEPT !.ClientID = "file-client-id",
                             !.ClientSecret = "file-client-secret"]
              ELSE c
        c2 == [c1 EXCEPT
                 !.ClientID = IF @ = "" THEN "typed-client-id" ELSE @,
                 !.ClientSecret = IF @ = "" THEN "typed-client-secret" ELSE @]
        c3 == [c2 EXCEPT
                 !.DeveloperToken = IF devFlag # "" THEN devFlag
                                    ELSE IF @ = "" THEN "typed-dev-token" ELSE @]
    IN  [c3 EXCEPT
           !.ManagerCustomerID = IF mgrFlag # NoID THEN mgrFlag
                                 ELSE IF @ = NoID THEN TypedManagerID ELSE @]

\* runAuthLogin up to the call of runOAuthFlow (lines 51-95).
LoginStart(credFile, devFlag, mgrFlag) ==
    /\ cmdPc = "run"
    /\ cmd = AuthLogin
    /\ LET l == Load(file)
       IN  IF LoginLoadError(l.err) # ""
           THEN /\ cmdErr' = LoginLoadError(l.err)
                /\ cmdPc' = "exit"
                /\ loginEv' = [NoLoginEvent EXCEPT !.fileAtStart = file, !.loadErr = l.err]
                /\ UNCHANGED creds
           ELSE IF credFile = "broken.json"
           THEN /\ cmdErr' = "reading credentials file"
                /\ cmdPc' = "exit"
                /\ loginEv' = [NoLoginEvent EXCEPT !.fileAtStart = file, !.loadErr = l.err,
                                                   !.fileErr = "parse"]
                /\ creds' = LoginBaseline(l)
           ELSE /\ creds' = LoginCollect(LoginBaseline(l), credFile, devFlag,
                                         mgrFlag)
                /\ cmdPc' = "flow"
                /\ loginEv' = [NoLoginEvent EXCEPT !.fileAtStart = file, !.loadErr = l.err,
                                                   !.base = LoginBaseline(l),
                                                   !.credFile = credFile,
                                                   !.devFlag = devFlag,
                                                   !.mgrFlag = mgrFlag]
                /\ UNCHANGED cmdErr
    /\ UNCHANGED <<file, apiClient, tsCached, srcMode, netMode, tokEv, cmd,
                   call, requests, responses, ret, exBody, exMsg, store, budget>>

FlowError_DenialIgnored(outcome) ==
    CASE outcome = "bind failed" -> "failed to start local server on :8080"
      [] outcome = "timed out" -> "authorization timed out after 5 minutes"
      [] OTHER -> ""

\* How runOAuthFlow can end: the port cannot be bound, the callback carries
\* no code, no callback within five minutes, or a code.
FlowError(outcome) ==
    CASE outcome = "bind failed" -> "failed to start local server on :8080"
      [] outcome = "denied" -> "authorization denied or failed"
      [] outcome = "timed out" -> "authorization timed out after 5 minutes"
      [] OTHER -> ""

\* codeCh := make(chan string, 1)
CodeChCap == 1

\* The callbacks the local server gets in one login are at most this many.
MaxCallbacks == 2

\* The code parameter of a callback: none (the user denied, or any other
\* request for a path of the server) or a code.
CallbackCodes == {"", "code-1", "code-2"}

\* srv.Close() (deferred, line 148) closes the listener.
ServerClose_Leak(port) == port

ServerClose(port) == "closed"

\* runOAuthFlow up to its select (lines 122-157): net.Listen on :8080, the
\* server started, the browser opened, the timer started.
FlowListen(free) ==
    /\ cmdPc = "flow"
    /\ IF free
       THEN /\ loginEv' = [loginEv EXCEPT !.port = "listening", !.bound = TRUE,
                                          !.timer = "running",
                                          !.steps = <<"bind", "url", "wait">>]
            /\ cmdPc' = "wait"
            /\ UNCHANGED cmdErr
       ELSE /\ loginEv' = [loginEv EXCEPT !.port = "in use",
                                          !.flowErr = FlowError("bind failed"),
                                          !.steps = <<"bind">>]
            /\ cmdErr' = FlowError("bind failed")
            /\ cmdPc' = "exit"
    /\ UNCHANGED <<file, creds, apiClient, tsCached, srcMode, netMode, tokEv,
                   cmd, call, requests, responses, ret, exBody, exMsg, store, budget>>

FlowCallback_LatestWins(code) ==
    /\ cmdPc = "wait"
    /\ loginEv.port = "listening"
    /\ Len(loginEv.callbacks) < MaxCallbacks
    /\ loginEv' = [loginEv EXCEPT !.callbacks = Append(@, code),
                                  !.codeCh = <<code>>]
    /\ UNCHANGED <<file, creds, apiClient, tsCached, srcMode, netMode, tokEv,
                   cmd, cmdPc, cmdErr, call, requests, responses, ret, exBody,
                   exMsg, store, budget>>

\* The handler of "/" (lines 135-145), which serves every path, in the
\* goroutine of its request: it sends the code, or "" when there is none
\* (whatever the error parameter), to codeCh, and blocks when codeCh is
\* full.  callbacks lists the requests in the order their handlers reach
\* the send.
FlowCallback(code) ==
    /\ cmdPc = "wait"
    /\ loginEv.port = "listening"
    /\ Len(loginEv.callbacks) < MaxCallbacks
    /\ loginEv' =
          IF Len(loginEv.codeCh) < CodeChCap
          THEN [loginEv EXCEPT !.callbacks = Append(@, code),
                               !.codeCh = Append(@, code)]
          ELSE [loginEv EXCEPT !.callbacks = Append(@, code),
                               !.blocked = Append(@, code)]
    /\ UNCHANGED <<file, creds, apiClient, tsCached, srcMode, netMode, tokEv,
                   cmd, cmdPc, cmdErr, call, requests, responses, ret, exBody,
                   exMsg, store, budget>>

FlowTimeout_Never == FALSE /\ UNCHANGED vars

\* Five minutes pass: ctx.Done() is closed (line 156).
FlowTimeout ==
    /\ cmdPc = "wait"
    /\ loginEv.timer = "running"
    /\ loginEv' = [loginEv EXCEPT !.timer = "fired"]
    /\ UNCHANGED <<file, creds, apiClient, tsCached, srcMode, netMode, tokEv,
                   cmd, cmdPc, cmdErr, call, requests, responses, ret, exBody,
                   exMsg, store, budget>>

\* What the select returns for the case taken (lines 159-167).
SelectOutcome(pick, ch) ==
    IF pick = "done" THEN "timed out"
    ELSE IF Head(ch) = "" THEN "denied" ELSE "code"

\* The select (lines 159-167), which takes either case when both are ready,
\* the return, with the deferred cancel and srv.Close(), and the test of
\* the error in runAuthLogin (lines 96-98).  A handler blocked on codeCh
\* completes its send when the value is received.
FlowSelect(pick) ==
    /\ cmdPc = "wait"
    /\ pick = "code" => loginEv.codeCh # <<>>
    /\ pick = "done" => loginEv.timer = "fired"
    /\ LET outcome == SelectOutcome(pick, loginEv.codeCh)
       IN  /\ loginEv' =
                 [loginEv EXCEPT
                    !.flowErr = FlowError(outcome),
                    !.code = IF outcome = "code" THEN Head(loginEv.codeCh) ELSE "",
                    !.codeCh = IF pick = "done" THEN @
                               ELSE IF loginEv.blocked # <<>>
                               THEN Append(Tail(@), Head(loginEv.blocked))
                               ELSE Tail(@),
                    !.blocked = IF pick = "code" /\ @ # <<>> THEN Tail(@) ELSE @,
                    !.timer = IF @ = "running" THEN "stopped" ELSE @,
                    !.port = ServerClose(@)]
           /\ cmdErr' = FlowError(outcome)
           /\ cmdPc' = IF FlowError(outcome) # "" THEN "exit" ELSE "exchange"
    /\ UNCHANGED <<file, creds, apiClient, tsCached, srcMode, netMode, tokEv,
                   cmd, call, requests, responses, ret, exBody, exMsg, store, budget>>

\* What oauthCfg.Exchange can return: an error, or a token with or without
\* a refresh token.
ExchangedToken(access, refresh, type, expiry) ==
    [AccessToken |-> access, RefreshToken |-> refresh, TokenType |-> type,
     Expiry |-> expiry]

ExchangeOutcomes ==
    {[err |-> TRUE, tok |-> ExchangedToken("", "", "", ZeroTime)]}
    \cup {[err |-> FALSE, tok |-> ExchangedToken("a9", r, t, Time(2, TRUE))] :
             r \in {"", "new-refresh"}, t \in {"", "Bearer"}}

\* Lines 107-110.
LoginMerge_KeepRefreshToken(c, tok) ==
    [c EXCEPT !.AccessToken = tok.AccessToken,
              !.RefreshToken = IF tok.RefreshToken = "" THEN @ ELSE tok.RefreshToken,
              !.TokenType = tok.TokenType,
              !.TokenExpiry = tok.Expiry]

LoginMerge(c, tok) ==
    [c EXCEPT !.AccessToken = tok.AccessToken,
              !.RefreshToken = tok.RefreshToken,
              !.TokenType = tok.TokenType,
              !.TokenExpiry = tok.Expiry]

\* What runAuthLogin returns for a failed Save (lines 112-114).
LoginSaveError_Discarded(saveErr) == ""

LoginSaveError(saveErr) == IF saveErr # "" THEN "saving credentials" ELSE ""

\* runAuthLogin from the exchange to the end (lines 100-119).
LoginExchange(ex, sv) ==
    /\ cmdPc = "exchange"
    /\ cmdPc' = "exit"
    /\ IF ex.err
       THEN /\ cmdErr' = "exchanging auth code"
            /\ loginEv' = [loginEv EXCEPT !.exchangeErr = "exchange",
                                          !.steps = Append(@, "exchange")]
            /\ UNCHANGED <<creds, file>>
       ELSE LET c == LoginMerge(creds, ex.tok)
                r == Save(c, file, sv)
            IN  /\ creds' = c
                /\ file' = r.file
                /\ cmdErr' = LoginSaveError(r.err)
                /\ loginEv' = [loginEv EXCEPT !.saveErr = r.err,
                                              !.saved = (r.err = ""),
                                              !.tok = ex.tok,
                                              !.steps = @ \o <<"exchange", "save">>]
    /\ UNCHANGED <<apiClient, tsCached, srcMode, netMode, tokEv, cmd, call,
                   requests, responses, ret, exBody, exMsg, store, budget>>

LoginStep ==
    \/ \E credFile \in CredentialsFiles, devFlag \in DeveloperTokenFlags,
          mgrFlag \in ManagerAccountFlags :
          LoginStart(credFile, devFlag, mgrFlag)
    \/ \E free \in BOOLEAN : FlowListen(free)
    \/ \E code \in CallbackCodes : FlowCallback(code)
    \/ FlowTimeout
    \/ \E pick \in {"code", "done"} : FlowSelect(pick)
    \/ \E ex \in ExchangeOutcomes, sv \in SaveOutcomes : LoginExchange(ex, sv)

----------------------------------------------------------------------------
(* One run of the program, from any stored state of the credentials file. *)

StoredRecords ==
    {Credentials("id", "secret", dev, mgr, refresh, access, "Bearer", StoredTime) :
        dev \in {"", "dev-token"}, mgr \in {NoID, HyphenatedID},
        refresh \in {"", "refresh"}, access \in {"", "a0"}}

StoredFiles ==
    {AbsentFile, FileOf("garbage", EmptyCredentials, "0600"),
     FileOf("unreadable", EmptyCredentials, "0600")}
    \cup {DataFile(MarshalCredentials(c), mode) :
             c \in StoredRecords, mode \in {"0600", "0644"}}

Init ==
    /\ file \in StoredFiles
    /\ creds = EmptyCredentials
    /\ apiClient = NoClient
    /\ tsCached = FALSE
    /\ srcMode = "stable"
    /\ netMode = "small"
    /\ tokEv = NoTokenEvent
    /\ cmd = <<"gads-cli">>
    /\ cmdPc = "start"
    /\ cmdErr = ""
    /\ loginEv = NoLoginEvent
    /\ call = NoCall
    /\ requests = <<>>
    /\ responses = <<>>
    /\ ret = NoRet
    /\ exBody = EmptyBody
    /\ exMsg = NotExtracted
    /\ store = NoStoreOp
    /\ budget = NoBudget

Run == \E c \in Commands : RunCommand(c)

LogoutStep == \E ok \in BOOLEAN : Logout(ok)

Next ==
    \/ Run
    \/ SearchStep
    \/ ListStep
    \/ MutateStep
    \/ AccountsListSearch
    \/ TakeResult
    \/ CommandReturn
    \/ LogoutStep
    \/ ShowStatus
    \/ LoginStep

Spec == Init /\ [][Next]_vars

----------------------------------------------------------------------------
(* The saving token source under a wrapped source whose token expires: a   *)
(* client built from a complete record makes calls, and the oauth2         *)
(* transport asks savingTokenSource.Token for a token again and again.     *)

TokenRecords ==
    {Credentials("id", "secret", "dev-token", NoID, "refresh", access, type,
                 StoredTime) : access \in {"", "a0", "a1"}, type \in {"", "Bearer"}}

InitToken ==
    /\ \E c \in TokenRecords :
          /\ file = DataFile(MarshalCredentials(c), "0600")
          /\ creds = c
          /\ apiClient = New(c.DeveloperToken, c.ManagerCustomerID)
    /\ tsCached = FALSE
    /\ srcMode = "refreshing"
    /\ netMode = "small"
    /\ tokEv = NoTokenEvent
    /\ cmd = CampaignsList
    /\ cmdPc = "run"
    /\ cmdErr = ""
    /\ loginEv = NoLoginEvent
    /\ call = NoCall
    /\ requests = <<>>
    /\ responses = <<>>
    /\ ret = NoRet
    /\ exBody = EmptyBody
    /\ exMsg = NotExtracted
    /\ store = NoStoreOp
    /\ budget = NoBudget

NextToken == SearchStep \/ ListStep \/ TakeResult

SpecToken == InitToken /\ [][NextToken]_vars

\* The wrapped source answered the last Token call with a token.
Reported == tokEv.called /\ ~tokEv.src.err

\* That token's access token is not the one the record held.
ReportedNew == Reported /\ tokEv.src.tok.AccessToken # tokEv.before.AccessToken

\* The access token a Load of the file gives after the call.
PersistedAccessToken == Load(tokEv.fileAfter).creds.AccessToken

\* C4 as claimed: when the wrapped source reports an access token different
\* from the one on record exactly one save occurs and afterwards the
\* persisted access token is the refreshed one; when it reports the one on
\* record no save occurs.
C4_Original ==
    Reported =>
        IF ReportedNew
        THEN /\ tokEv.saves = 1
             /\ Load(tokEv.fileAfter).err = ""
             /\ PersistedAccessToken = tokEv.src.tok.AccessToken
        ELSE /\ tokEv.saves = 0
             /\ tokEv.fileAfter = tokEv.fileBefore

\* C4 amended: when the wrapped source reports an access token different
\* from the one on record Token calls Save exactly once; if that Save
\* succeeds the file holds the updated record, whose access token is the
\* refreshed one; if it fails the file is as before or holds no record that
\* decodes, and Token returns the token all the same.  When the reported
\* access token is the one on record Save is not called and the file is not
\* touched.
C4_TokenRefreshTransparency ==
    Reported =>
        IF ReportedNew
        THEN /\ tokEv.saves = 1
             /\ tokEv.saveErr = "" =>
                   /\ Load(tokEv.fileAfter) =
                         [creds |-> MarshalCredentials(tokEv.after), err |-> ""]
                   /\ PersistedAccessToken = tokEv.src.tok.AccessToken
             /\ tokEv.saveErr # "" =>
                   /\ tokEv.fileAfter = tokEv.fileBefore
                         \/ Load(tokEv.fileAfter).err # ""
                   /\ tokEv.err = ""
                   /\ tokEv.tok = tokEv.src.tok
        ELSE /\ tokEv.saves = 0
             /\ tokEv.fileAfter = tokEv.fileBefore

C4_Witness ==
    /\ ReportedNew
    /\ tokEv.before.AccessToken = "a1"
    /\ tokEv.src.tok.AccessToken = "a2"
    /\ tokEv.saves = 1
    /\ tokEv.saveErr = ""
    /\ PersistedAccessToken = "a2"
    /\ file = tokEv.fileAfter

\* Token returned a token whose access token is not the one the record held.
ReturnedNew ==
    /\ tokEv.called
    /\ tokEv.err = ""
    /\ tokEv.tok.AccessToken # tokEv.before.AccessToken

\* C5 as claimed: whenever Token returns a token whose access token differs
\* from the one on record, the record then holds that token's access token,
\* token type and expiry, an empty token type included.
C5_Original ==
    ReturnedNew =>
        /\ tokEv.after.AccessToken = tokEv.tok.AccessToken
        /\ tokEv.after.TokenType = tokEv.tok.TokenType
        /\ tokEv.after.TokenExpiry = tokEv.tok.Expiry

\* C5 amended: whenever Token returns a token whose access token differs
\* from the one on record, the record then holds that token's access token
\* and expiry, and its token type when that is not empty; when the token's
\* type is empty the record keeps the token type it had.  No other field of
\* the record changes.
C5_TokenWriteBack ==
    ReturnedNew =>
        /\ tokEv.after.AccessToken = tokEv.tok.AccessToken
        /\ tokEv.after.TokenExpiry = tokEv.tok.Expiry
        /\ tokEv.after.TokenType =
              (IF tokEv.tok.TokenType # "" THEN tokEv.tok.TokenType
               ELSE tokEv.before.TokenType)
        /\ tokEv.after =
              [tokEv.before EXCEPT !.AccessToken = tokEv.after.AccessToken,
                                   !.TokenExpiry = tokEv.after.TokenExpiry,
                                   !.TokenType = tokEv.after.TokenType]

C5_Witness ==
    /\ ReturnedNew
    /\ tokEv.tok.TokenType = ""
    /\ tokEv.before.TokenType = "Bearer"
    /\ tokEv.after.TokenType = "Bearer"
    /\ tokEv.after.AccessToken = tokEv.tok.AccessToken
    /\ creds = tokEv.after

----------------------------------------------------------------------------
(* Properties of a run of the program (checked under Spec). *)

\* The commands that require authentication: every command outside the auth
\* subtree other than info, update and help, and auth check.
RequiresAuthentication(c) ==
    \/ ~isAuthCommand(c) /\ Name(c) \notin {"info", "update", "help"}
    \/ c = AuthCheck

ConfigurationErrors == {"not authenticated", "developer token not set"}

\* The record the file stores (the empty record when there is no file) lacks
\* the refresh token or the developer token.
StoredRecordIncomplete ==
    /\ file.kind \in {"absent", "data"}
    /\ Load(file).creds.RefreshToken = "" \/ Load(file).creds.DeveloperToken = ""

\* C3: for every stored record whose refresh token or developer token is
\* empty, every command that requires authentication fails with a
\* configuration error, without building a client, asking for a token or
\* issuing a request.
C3_ConfigErrorBeforeAnyCall ==
    (cmdPc # "start" /\ RequiresAuthentication(cmd) /\ StoredRecordIncomplete) =>
        /\ cmdPc = "exit"
        /\ cmdErr \in ConfigurationErrors
        /\ (Load(file).creds.RefreshToken = "") <=> (cmdErr = "not authenticated")
        /\ ~apiClient.init
        /\ ~tokEv.called
        /\ requests = <<>>
        /\ responses = <<>>

C3_Witness ==
    /\ cmd = AuthCheck
    /\ cmdPc = "exit"
    /\ file.kind = "data"
    /\ file.rec.RefreshToken = "refresh"
    /\ file.rec.DeveloperToken = ""
    /\ cmdErr = "developer token not set"
    /\ requests = <<>>

\* The failures that are returned to the caller of the operation they
\* occurred in: a Load in initAPIClient, the steps of auth login from the
\* credentials file on, a token fetch, an HTTP request, a response parse.
ReturnedFailures ==
    /\ (cmdPc # "start" /\ RequiresAuthentication(cmd) /\ ~tokEv.called
          /\ Load(file).err # "") =>
          /\ cmdPc = "exit"
          /\ cmdErr = "failed to load credentials"
          /\ ~apiClient.init
    /\ (loginEv.fileErr # "" \/ loginEv.flowErr # "" \/ loginEv.exchangeErr # ""
          \/ loginEv.saveErr # "") =>
          /\ cmdPc = "exit"
          /\ cmdErr # ""
          /\ ~loginEv.saved
    /\ (tokEv.called /\ tokEv.src.err) =>
          /\ tokEv.err # ""
          /\ tokEv.tok = NoToken
          /\ ret.op # "none" => ret.err # NoErr
          /\ call.op # "none" => requests = <<>>
    /\ (ret.op # "none" /\ call.op = "none" /\ PageFailed(LastResponse)) =>
          ret.err # NoErr

\* C6 as claimed: every failure of a core step (credential Load, credential
\* Save during a token refresh or a login, token fetch, HTTP request,
\* response parse) is returned as an error by the operation it occurred in.
C6_Original ==
    /\ ReturnedFailures
    /\ (tokEv.called /\ tokEv.saveErr # "") => tokEv.err # ""
    /\ (cmd = AuthLogin /\ loginEv.loadErr # "") =>
          (cmdPc = "exit" /\ cmdErr # "")

\* C6 amended: every failure of a core step is returned as an error by the
\* operation it occurred in, but for two: Token discards the error of the
\* Save it makes after a refresh and returns the token with no error, and
\* auth login replaces a record that fails to load by the empty record and
\* goes on, so that it can end with no error.
C6_NoSwallowedErrors ==
    /\ ReturnedFailures
    /\ (tokEv.called /\ tokEv.saveErr # "") =>
          /\ tokEv.err = ""
          /\ tokEv.tok = tokEv.src.tok
          /\ tokEv.after.AccessToken = tokEv.tok.AccessToken
    /\ (cmd = AuthLogin /\ loginEv.loadErr # "") =>
          /\ cmdPc \in {"flow", "wait", "exchange"} =>
                (cmdErr = "" /\ creds.RefreshToken = "" /\ creds.AccessToken = "")
          /\ (cmdPc = "exit" /\ cmdErr = "") => loginEv.saved

C6_Witness ==
    /\ cmd = AuthLogin
    /\ cmdPc = "exit"
    /\ loginEv.loadErr = "decode"
    /\ loginEv.saveErr = "write"
    /\ cmdErr = "saving credentials"

\* C11: every request the protocol client issues carries the developer-token
\* header with the developer token on record, and carries the
\* login-customer-id header exactly when a manager customer id is on
\* record, with that id as its value.
C11_HeaderInvariant ==
    \A i \in 1..Len(requests) :
       /\ requests[i].developerToken = creds.DeveloperToken
       /\ requests[i].developerToken # ""
       /\ requests[i].hasLoginCustomerID <=> (creds.ManagerCustomerID # NoID)
       /\ requests[i].hasLoginCustomerID =>
             requests[i].loginCustomerID = creds.ManagerCustomerID

C11_Witness ==
    /\ Returned("search")
    /\ Len(requests) = 2
    /\ requests[1].developerToken = "dev-token"
    /\ requests[2].hasLoginCustomerID
    /\ requests[2].loginCustomerID = HyphenatedID
    /\ requests[2].payload.hasPageToken

\* The customer id the requests of the current (or last) call were built for,
\* as it was given.
GivenAccount == IF call.op # "none" THEN call.account ELSE ret.account

\* C12: the hyphenated and the hyphen-free form of a customer id give the
\* same value, the hyphen-free form, in every request path and every
\* request header built from it: the account id in the path and the manager
\* customer id in the login-customer-id header.
C12_CustomerIdNormalization ==
    \A i \in 1..Len(requests) :
       /\ Len(requests[i].path) >= 2 =>
             requests[i].path[2] = CleanCustomerID(GivenAccount)
       /\ requests[i].hasLoginCustomerID =>
             requests[i].loginCustomerID =
                CleanCustomerID(creds.ManagerCustomerID)

----------------------------------------------------------------------------
(* The credential store alone: Save, Load and Clear on any stored state of *)
(* the file.  Save is taken in its two parts, up to the opening of the     *)
(* file by os.WriteFile and the write itself, and a Load (of this process  *)
(* after the Save was cut short, or of another) can fall in between.       *)

\* The records handed to Save.  A token expiry that comes from a refresh or
\* an exchange in this process carries a monotonic clock reading.
StoreRecords ==
    {EmptyCredentials,
     Credentials("id", "secret", "dev-token", HyphenatedID, "refresh", "a1",
                 "Bearer", Time(2, TRUE)),
     Credentials("id", "secret", "dev-token", HyphenatedID, "refresh", "a1",
                 "Bearer", Time(2, FALSE)),
     Credentials("id2", "secret2", "", NoID, "", "a2", "", Time(3, TRUE))}

\* Save up to os.WriteFile's OpenFile (lines 89-100): it fails before
\* anything is written, or the file is open and truncated.
StoreSave(c, opened) ==
    /\ ~store.saving
    /\ IF opened
       THEN /\ file' = TruncatedFile(file)
            /\ store' = [op |-> "saving", err |-> "", arg |-> c,
                         fileBefore |-> file, loaded |-> EmptyCredentials,
                         saving |-> TRUE, prevOp |-> store.op,
                         prevErr |-> store.err]
       ELSE /\ file' = Save(c, file, "fail_early").file
            /\ store' = [op |-> "save", err |-> Save(c, file, "fail_early").err,
                         arg |-> c, fileBefore |-> file,
                         loaded |-> EmptyCredentials, saving |-> FALSE,
                         prevOp |-> store.op, prevErr |-> store.err]
    /\ UNCHANGED <<creds, apiClient, tsCached, srcMode, netMode, tokEv, cmd,
                   cmdPc, cmdErr, loginEv, call, requests, responses, ret,
                   exBody, exMsg, budget>>

\* The write of os.WriteFile (line 100) and the return of Save.
StoreSaveEnd(written) ==
    /\ store.saving
    /\ LET r == Save(store.arg, store.fileBefore,
                     IF written THEN "ok" ELSE "fail_write")
       IN  /\ file' = r.file
           /\ store' = [store EXCEPT !.op = "save", !.err = r.err,
                                     !.saving = FALSE]
    /\ UNCHANGED <<creds, apiClient, tsCached, srcMode, netMode, tokEv, cmd,
                   cmdPc, cmdErr, loginEv, call, requests, responses, ret,
                   exBody, exMsg, budget>>

\* Load (lines 68-85).
StoreLoad ==
    /\ store' = [store EXCEPT !.op = "load", !.err = Load(file).err,
                              !.loaded = Load(file).creds,
                              !.prevOp = store.op, !.prevErr = store.err]
    /\ UNCHANGED <<file, creds, apiClient, tsCached, srcMode, netMode, tokEv,
                   cmd, cmdPc, cmdErr, loginEv, call, requests, responses, ret,
                   exBody, exMsg, budget>>

\* Clear (lines 104-114).
StoreClear(ok) ==
    /\ ~store.saving
    /\ file' = Clear(file, ok).file
    /\ store' = [op |-> "clear", err |-> Clear(file, ok).err,
                 arg |-> EmptyCredentials, fileBefore |-> file,
                 loaded |-> EmptyCredentials, saving |-> FALSE,
                 prevOp |-> store.op, prevErr |-> store.err]
    /\ UNCHANGED <<creds, apiClient, tsCached, srcMode, netMode, tokEv, cmd,
                   cmdPc, cmdErr, loginEv, call, requests, responses, ret,
                   exBody, exMsg, budget>>

InitStore ==
    /\ file \in StoredFiles
    /\ store = NoStoreOp
    /\ budget = NoBudget
    /\ creds = EmptyCredentials
    /\ apiClient = NoClient
    /\ tsCached = FALSE
    /\ srcMode = "stable"
    /\ netMode = "small"
    /\ tokEv = NoTokenEvent
    /\ cmd = <<"gads-cli">>
    /\ cmdPc = "exit"
    /\ cmdErr = ""
    /\ loginEv = NoLoginEvent
    /\ call = NoCall
    /\ requests = <<>>
    /\ responses = <<>>
    /\ ret = NoRet
    /\ exBody = EmptyBody
    /\ exMsg = NotExtracted

NextStore ==
    \/ \E c \in StoreRecords, opened \in BOOLEAN : StoreSave(c, opened)
    \/ \E written \in BOOLEAN : StoreSaveEnd(written)
    \/ StoreLoad
    \/ \E ok \in BOOLEAN : StoreClear(ok)

SpecStore == InitStore /\ [][NextStore]_vars

\* Two time.Time values are the same instant (Time.Equal).
SameInstant(t, u) == t.wall = u.wall

\* Two records are equal field for field.
SameRecord(a, b) ==
    /\ a.ClientID = b.ClientID
    /\ a.ClientSecret = b.ClientSecret
    /\ a.DeveloperToken = b.DeveloperToken
    /\ a.ManagerCustomerID = b.ManagerCustomerID
    /\ a.RefreshToken = b.RefreshToken
    /\ a.AccessToken = b.AccessToken
    /\ a.TokenType = b.TokenType
    /\ SameInstant(a.TokenExpiry, b.TokenExpiry)

\* A Load was made right after a Save that succeeded.
LoadedAfterSave ==
    /\ store.op = "load"
    /\ store.prevOp = "save"
    /\ store.prevErr = ""

ClearedTwice == store.op = "clear" /\ store.prevOp = "clear"

C16_SavedFileOwnerOnly ==
    (store.op = "save" /\ store.err = "") => file.mode = "0600"

\* A Load that fell into a Save (the file is open, the write not complete)
\* or right after a Save that returned an error.
LoadedAroundFailedSave ==
    /\ store.op = "load"
    /\ store.saving \/ (store.prevOp = "save" /\ store.prevErr # "")

\* C17 as stated: such a Load observes the complete previous record or the
\* complete new one (taken for the states whose previous record was whole
\* or absent).
C17_SaveAtomic ==
    (LoadedAroundFailedSave /\ store.fileBefore.kind \in {"absent", "data"}) =>
        /\ store.err = ""
        /\ \/ store.loaded = Load(store.fileBefore).creds
           \/ SameRecord(store.loaded, store.arg)

\* C17: a Load that falls into a Save whose file is open, or follows a Save
\* whose write failed, returns a decode error and no record; after a Save
\* that failed before the file was opened it returns what it returned
\* before the Save.  A Load never returns a mix of two records.
C17_SaveTruncatesThenWrites ==
    LoadedAroundFailedSave =>
        /\ (store.saving \/ store.prevErr = "write") =>
               (store.err = "decode" /\ store.loaded = EmptyCredentials)
        /\ (~store.saving /\ store.prevErr = "open") =>
               /\ store.err = Load(store.fileBefore).err
               /\ store.loaded = Load(store.fileBefore).creds
        /\ store.err = "" => store.loaded = Load(store.fileBefore).creds

C17_Witness ==
    /\ store.op = "load"
    /\ store.saving
    /\ store.fileBefore.kind = "data"
    /\ store.arg # EmptyCredentials
    /\ store.err = "decode"

----------------------------------------------------------------------------
(* auth login alone, from any stored state of the credentials file.  The   *)
(* Go runtime runs every goroutine that can run and fires the timer of the *)
(* context: the steps of runOAuthFlow's own goroutine and the timer are    *)
(* weakly fair.  Nothing makes the browser call back.                      *)

InitLogin ==
    /\ file \in StoredFiles
    /\ creds = EmptyCredentials
    /\ apiClient = NoClient
    /\ tsCached = FALSE
    /\ srcMode = "stable"
    /\ netMode = "small"
    /\ tokEv = NoTokenEvent
    /\ cmd = AuthLogin
    /\ cmdPc = "run"
    /\ cmdErr = ""
    /\ loginEv = NoLoginEvent
    /\ call = NoCall
    /\ requests = <<>>
    /\ responses = <<>>
    /\ ret = NoRet
    /\ exBody = EmptyBody
    /\ exMsg = NotExtracted
    /\ store = NoStoreOp
    /\ budget = NoBudget

SpecLogin ==
    /\ InitLogin
    /\ [][LoginStep]_vars
    /\ WF_vars(\E free \in BOOLEAN : FlowListen(free))
    /\ WF_vars(FlowTimeout)
    /\ WF_vars(\E pick \in {"code", "done"} : FlowSelect(pick))

\* runOAuthFlow is running.
InFlow == cmdPc \in {"flow", "wait"}

\* runOAuthFlow has returned after binding the port.
FlowReturned == cmd = AuthLogin /\ loginEv.bound /\ cmdPc \in {"exchange", "exit"}

\* The codes of the callbacks the server received.
ReceivedCodes == {loginEv.callbacks[i] : i \in 1..Len(loginEv.callbacks)}

\* What runOAuthFlow returned is a code or one of its errors, the timeout
\* error only after the timer fired, the denial error only after a callback
\* with no code, a code only when a callback carried it.
FlowResult ==
    FlowReturned =>
        /\ loginEv.flowErr \in {"", FlowError("denied"), FlowError("timed out")}
        /\ (loginEv.flowErr = "") <=> (loginEv.code # "")
        /\ loginEv.code # "" => loginEv.code \in ReceivedCodes
        /\ loginEv.flowErr = FlowError("timed out") => loginEv.timer = "fired"
        /\ loginEv.flowErr = FlowError("denied") => "" \in ReceivedCodes
        /\ FlowError("timed out") # FlowError("denied")

C19_ListenerClosed == FlowReturned => loginEv.port = "closed"

C19_Witness ==
    /\ FlowReturned
    /\ cmdPc = "exit"
    /\ loginEv.exchangeErr # ""
    /\ loginEv.port = "closed"

\* The record a Load of the file gives.
Persisted == Load(file).creds

\* C20: after a login that succeeded the persisted access token, refresh
\* token, token type and expiry are those of the exchanged token, and the
\* client id and secret, the developer token and the manager customer id
\* that the record held before and no flag overrode are unchanged.
C20_LoginMergesRecord ==
    (cmd = AuthLogin /\ loginEv.saved) =>
        /\ cmdPc = "exit" /\ cmdErr = ""
        /\ Load(file).err = ""
        /\ Persisted.AccessToken = loginEv.tok.AccessToken
        /\ Persisted.RefreshToken = loginEv.tok.RefreshToken
        /\ Persisted.TokenType = loginEv.tok.TokenType
        /\ SameInstant(Persisted.TokenExpiry, loginEv.tok.Expiry)
        /\ (loginEv.credFile = "" /\ loginEv.base.ClientID # "") =>
               Persisted.ClientID = loginEv.base.ClientID
        /\ (loginEv.credFile = "" /\ loginEv.base.ClientSecret # "") =>
               Persisted.ClientSecret = loginEv.base.ClientSecret
        /\ (loginEv.devFlag = "" /\ loginEv.base.DeveloperToken # "") =>
               Persisted.DeveloperToken = loginEv.base.DeveloperToken
        /\ (loginEv.mgrFlag = NoID /\ loginEv.base.ManagerCustomerID # NoID) =>
               Persisted.ManagerCustomerID = loginEv.base.ManagerCustomerID

C20_Witness ==
    /\ cmd = AuthLogin
    /\ loginEv.saved
    /\ loginEv.credFile = ""
    /\ loginEv.devFlag = "flag-dev-token"
    /\ loginEv.mgrFlag = NoID
    /\ loginEv.base.ClientID = "id"
    /\ loginEv.base.RefreshToken = "refresh"
    /\ loginEv.base.ManagerCustomerID = HyphenatedID
    /\ loginEv.tok.RefreshToken = ""
    /\ Persisted.RefreshToken = ""
    /\ Persisted.AccessToken = "a9"
    /\ Persisted.ManagerCustomerID = HyphenatedID
    /\ Persisted.DeveloperToken = "flag-dev-token"

\* The order of the side effects of a login.
LoginOrder == <<"bind", "url", "wait", "exchange", "save">>

\* The login ended with an error of the bind, the wait or the exchange.
LoginFailedBeforeSave ==
    /\ cmd = AuthLogin
    /\ cmdPc = "exit"
    /\ loginEv.flowErr # "" \/ loginEv.exchangeErr # ""

\* C21: the side effects of a login are made in the order bind, URL, wait,
\* exchange, save; a failed bind presents no URL and attempts no exchange;
\* the exchange is attempted only after a code was received; the file is
\* written only after an exchange that succeeded, so a login that fails at
\* the bind, a denial, the timeout or the exchange leaves the file as found.
C21_LoginStepOrder ==
    cmd = AuthLogin =>
        /\ loginEv.steps = SubSeq(LoginOrder, 1, Len(loginEv.steps))
        /\ loginEv.port = "in use" => loginEv.steps = <<"bind">>
        /\ Len(loginEv.steps) >= 4 =>
               (loginEv.code # "" /\ loginEv.code \in ReceivedCodes)
        /\ Len(loginEv.steps) = 5 <=> (cmdPc = "exit" /\ loginEv.tok.AccessToken # "")
        /\ Len(loginEv.steps) < 5 => (loginEv.steps = <<>> \/ file = loginEv.fileAtStart)
        /\ LoginFailedBeforeSave =>
               (file = loginEv.fileAtStart /\ Len(loginEv.steps) < 5 /\ cmdErr # "")

C21_Witness ==
    /\ LoginFailedBeforeSave
    /\ loginEv.exchangeErr # ""
    /\ loginEv.steps = <<"bind", "url", "wait", "exchange">>
    /\ file.kind = "data"
    /\ file = loginEv.fileAtStart

\* A Mutate call has returned.
MutateReturned == ret.op = "mutate" /\ call.op = "none"

\* C22: a Mutate call issues exactly one request, a POST to the mutate
\* endpoint of its own resource kind under the given account, whose body is
\* the batch of operations in the order the caller gave, and on success
\* returns the result entries of the response in the order it lists them.
C22_MutateSinglePost ==
    MutateReturned =>
        /\ Len(requests) = 1
        /\ Len(responses) = 1
        /\ requests[1].method = "POST"
        /\ requests[1].path =
              <<"customers", CleanCustomerID(ret.account), ret.kind \o ":mutate">>
        /\ requests[1].payload = MutatePayload(ret.operations)
        /\ ret.err = NoErr => ret.rows = responses[1].body.results

C22_Witness ==
    /\ MutateReturned
    /\ ret.err = NoErr
    /\ ret.kind = "campaignBudgets"
    /\ ret.account = HyphenatedID
    /\ ret.operations = <<"op2", "op1">>
    /\ requests[1].payload.operations = <<"op2", "op1">>
    /\ Len(ret.rows) = 2
    /\ ret.rows[1] # ret.rows[2]

----------------------------------------------------------------------------
(* Client initialisation alone: a command is run on a stored record with    *)
(* any access token, token type and expiry.                                 *)

\* The expiry of the stored access token is none, passed or still to come.
AnyTokenRecords ==
    {Credentials("id", "secret", dev, mgr, refresh, access, type, expiry) :
        dev \in {"", "dev-token"}, mgr \in {NoID, HyphenatedID},
        refresh \in {"", "refresh"}, access \in {"", "a0"},
        type \in {"", "Bearer"}, expiry \in {ZeroTime, StoredTime, Time(9, FALSE)}}

InitAnyToken ==
    /\ file \in {DataFile(MarshalCredentials(c), "0600") : c \in AnyTokenRecords}
    /\ creds = EmptyCredentials
    /\ apiClient = NoClient
    /\ tsCached = FALSE
    /\ srcMode = "stable"
    /\ netMode = "small"
    /\ tokEv = NoTokenEvent
    /\ cmd = <<"gads-cli">>
    /\ cmdPc = "start"
    /\ cmdErr = ""
    /\ loginEv = NoLoginEvent
    /\ call = NoCall
    /\ requests = <<>>
    /\ responses = <<>>
    /\ ret = NoRet
    /\ exBody = EmptyBody
    /\ exMsg = NotExtracted
    /\ store = NoStoreOp
    /\ budget = NoBudget

SpecAnyToken == InitAnyToken /\ [][Run]_vars

\* A command that requires authentication went through initAPIClient.
ClientInitialised == cmdPc # "start" /\ RequiresAuthentication(cmd)

\* C23: for every stored record, initAPIClient succeeds exactly when the
\* refresh token and the developer token are not empty, whatever the access
\* token, the token type and the expiry are.
C23_AccessTokenNotRequired ==
    ClientInitialised =>
        ((Load(file).creds.RefreshToken # "" /\ Load(file).creds.DeveloperToken # "")
            <=> (cmdErr = "" /\ cmdPc = "run" /\ apiClient.init
                   /\ creds = Load(file).creds))

C23_Witness ==
    /\ ClientInitialised
    /\ cmd = CampaignsList
    /\ cmdErr = ""
    /\ apiClient.init
    /\ creds.RefreshToken = "refresh"
    /\ creds.AccessToken = ""
    /\ creds.TokenType = ""
    /\ creds.TokenExpiry = ZeroTime

\* The fields of a record that a login sets and a refresh is not to touch.
LoginFields(c) ==
    <<c.ClientID, c.ClientSecret, c.DeveloperToken, c.ManagerCustomerID,
      c.RefreshToken>>

\* Their values in the record the client was built from: every record of
\* TokenRecords has this client id, secret and refresh token, and the
\* client keeps the developer token and the manager customer id.
LoginValues ==
    <<"id", "secret", apiClient.developerToken, apiClient.loginCustomerID,
      "refresh">>

Searching == call.op = "search" \/ Returned("search")

\* Search took the response for a page (no error of doRequest, a body that
\* decodes).
PageAccepted(resp) == doRequest(resp).err = NoErr /\ ~UnmarshalFails(resp.body)

\* C25: the first request of a Search carries the query and no pageToken;
\* every later request carries the same query and, as pageToken, the
\* nextPageToken of the response just before it; Search returns at the
\* first response whose nextPageToken is empty and issues no request after.
C25_PageTokenProtocol ==
    Searching =>
        /\ Len(requests) = Len(responses)
        /\ call.op = "search" => call.query \in Queries
        /\ \A i \in 1..Len(requests) :
              /\ requests[i].payload.query \in Queries
              /\ requests[i].payload.query = requests[1].payload.query
              /\ call.op = "search" => requests[i].payload.query = call.query
              /\ i = 1 => ~requests[i].payload.hasPageToken
              /\ i > 1 =>
                    /\ PageAccepted(responses[i - 1])
                    /\ requests[i].payload.hasPageToken
                    /\ requests[i].payload.pageToken =
                          responses[i - 1].body.nextPageToken
        /\ \A i \in 1..Len(responses) :
              (PageAccepted(responses[i]) /\ responses[i].body.nextPageToken = "") =>
                  (i = Len(responses) /\ Returned("search") /\ ret.err = NoErr)

C25_Witness ==
    /\ Returned("search")
    /\ Len(requests) = 3
    /\ ~requests[1].payload.hasPageToken
    /\ requests[2].payload.pageToken = "t1"
    /\ requests[3].payload.pageToken = "t2"
    /\ responses[2].body.nextPageToken = "t2"
    /\ responses[3].body.nextPageToken = ""
    /\ ret.err = NoErr

----------------------------------------------------------------------------
(* Search alone against a service whose page sequence ends: within         *)
(* MaxPages answers one is a failure or has no nextPageToken.  The loop of *)
(* Search runs in the goroutine of the command, which the Go runtime keeps *)
(* running: its turns are weakly fair.                                     *)

InitSearch ==
    /\ \E c \in CompleteRecords :
          /\ file = DataFile(MarshalCredentials(c), "0600")
          /\ creds = c
          /\ apiClient = New(c.DeveloperToken, c.ManagerCustomerID)
    /\ tsCached = FALSE
    /\ srcMode = "stable"
    /\ netMode = "pages"
    /\ tokEv = NoTokenEvent
    /\ cmd = CampaignsList
    /\ cmdPc = "run"
    /\ cmdErr = ""
    /\ loginEv = NoLoginEvent
    /\ call = NoCall
    /\ requests = <<>>
    /\ responses = <<>>
    /\ ret = NoRet
    /\ exBody = EmptyBody
    /\ exMsg = NotExtracted
    /\ store = NoStoreOp
    /\ budget = NoBudget

SpecSearch ==
    /\ InitSearch
    /\ [][SearchStep \/ TakeResult]_vars
    /\ WF_vars(call.op = "search" /\ SearchStep)

\* Search goes on exactly while the pages it gets carry a nextPageToken,
\* whether or not the token was seen before, and returns only on a failure
\* or on a page with no nextPageToken.
LoopBoundedByServerOnly ==
    /\ (call.op = "search" /\ responses # <<>>) =>
          (PageAccepted(LastResponse) /\ LastResponse.body.nextPageToken # "")
    /\ Returned("search") =>
          /\ responses # <<>>
          /\ ~PageAccepted(LastResponse) \/ LastResponse.body.nextPageToken = ""
          /\ Len(requests) = Len(responses)

\* C26: a Search returns whenever the service at some page answers with a
\* failure or with no nextPageToken; the loop has no page limit and no
\* detection of a repeated token, it makes as many requests as the service
\* gives pages.
C26_SearchTerminates ==
    []LoopBoundedByServerOnly /\ ((call.op = "search") ~> (call.op = "none"))

C26_Witness ==
    /\ Returned("search")
    /\ Len(requests) = MaxPages
    /\ responses[1].body.nextPageToken = "t1"
    /\ responses[2].body.nextPageToken = "t1"
    /\ requests[2].payload.pageToken = "t1"
    /\ requests[3].payload.pageToken = "t1"

\* What the first callback asks for: its code, or the denial error.
FirstCallbackDecides ==
    IF loginEv.callbacks[1] # ""
    THEN loginEv.code = loginEv.callbacks[1] /\ loginEv.flowErr = ""
    ELSE loginEv.code = "" /\ loginEv.flowErr = FlowError("denied")

\* C27 as stated: the first request that reaches the listener decides what
\* the flow returns, its code or the denial error, whatever comes later.
C27_FirstRequestDecides ==
    (FlowReturned /\ loginEv.callbacks # <<>>) => FirstCallbackDecides

\* C27: the flow returns what the first callback asks for, its code or the
\* denial error, whatever the later callbacks carry, unless the timer has
\* fired by the time the select is made, when the select can take the
\* timeout instead; with no callback it returns the timeout error.
C27_FirstCallbackOrTimeout ==
    FlowReturned =>
        /\ loginEv.callbacks = <<>> => loginEv.flowErr = FlowError("timed out")
        /\ loginEv.callbacks # <<>> =>
              \/ FirstCallbackDecides
              \/ loginEv.timer = "fired" /\ loginEv.flowErr = FlowError("timed out")
        /\ loginEv.timer # "fired" =>
              (loginEv.callbacks # <<>> /\ FirstCallbackDecides)

C27_Witness ==
    /\ FlowReturned
    /\ loginEv.callbacks = <<"", "code-1">>
    /\ loginEv.timer = "stopped"
    /\ loginEv.flowErr = "authorization denied or failed"
    /\ loginEv.code = ""
    /\ cmdPc = "exit"

\* C28: in every interleaving of callbacks, the waiting flow and the
\* timeout, the flow receives at most one message from codeCh and, once
\* runOAuthFlow has returned, no handler is left blocked on its send.
C28_NoHandlerLeftBlocked ==
    FlowReturned =>
        /\ Len(loginEv.codeCh) + Len(loginEv.blocked) >= Len(loginEv.callbacks) - 1
        /\ loginEv.blocked = <<>>

\* C30: whenever auth login returns success the persisted record has a
\* refresh token, so that initAPIClient does not reject it as not
\* authenticated, for every token the exchange can return and every record
\* the login found.
C30_LoginEstablishesAuthentication ==
    (cmd = AuthLogin /\ cmdPc = "exit" /\ cmdErr = "" /\ loginEv.saved) =>
        /\ Load(file).err = ""
        /\ ~MissingRefreshToken(Persisted)
        /\ initAPIClient(file).err # "not authenticated"

----------------------------------------------------------------------------
(* campaigns budget (campaigns.go lines 202-258) with any flags, against a *)
(* service that answers its search and its mutation in any way.            *)

CampaignsBudget == <<"gads-cli", "campaigns", "budget">>

\* The tests of the flags (lines 211-219): the error returned, "" for none.
BudgetFlagError(b) ==
    IF b.account = NoID THEN "--account is required"
    ELSE IF b.campaign = "" THEN "--campaign is required"
    ELSE IF b.amount <= 0 THEN "--amount is required and must be positive"
    ELSE ""

\* The query (lines 223-225).
BudgetQuery(campaign) ==
    "SELECT campaign.id, campaign_budget.id FROM campaign WHERE campaign.id = '"
       \o campaign \o "'"

\* json.Unmarshal(rows[0], &row) and row.CampaignBudget.ID (lines 233-237):
\* a row without campaignBudget decodes with the id empty.
UnmarshalCampaignRow(row) ==
    IF \E id \in {"b7", "b8"} : row = RowWithBudget(id)
    THEN [err |-> FALSE,
          budgetID |-> CHOOSE id \in {"b7", "b8"} : row = RowWithBudget(id)]
    ELSE IF row = "{\"campaign\":{\"id\":\"111\"}}"
    THEN [err |-> FALSE, budgetID |-> ""]
    ELSE [err |-> TRUE, budgetID |-> ""]

BudgetSearchError_BudgetIDUnchecked(err, rows) ==
    IF err # NoErr THEN "call failed"
    ELSE IF rows = <<>> THEN "campaign not found"
    ELSE IF UnmarshalCampaignRow(rows[1]).err THEN "parsing response"
    ELSE ""

\* What RunE returns after the Search (lines 228-239), "" when it goes on.
BudgetSearchError(err, rows) ==
    IF err # NoErr THEN "call failed"
    ELSE IF rows = <<>> THEN "campaign not found"
    ELSE IF UnmarshalCampaignRow(rows[1]).err THEN "parsing response"
    ELSE IF UnmarshalCampaignRow(rows[1]).budgetID = ""
    THEN "could not find budget for campaign"
    ELSE ""

\* The operations of the mutation (lines 241-250); strconv.FormatInt gives
\* the amount in decimal digits.
BudgetOps(cid, budgetID, amount) ==
    <<[updateMask |-> "amountMicros",
       update |-> [resourceName |-> <<"customers", cid, "campaignBudgets", budgetID>>,
                   amountMicros |-> ToString(amount)]]>>

\* RunE up to the first turn of its Search (lines 210-227).
BudgetStart ==
    /\ cmd = CampaignsBudget
    /\ cmdPc = "run"
    /\ ~budget.searched
    /\ call.op = "none"
    /\ ret.op = "none"
    /\ IF BudgetFlagError(budget) # ""
       THEN /\ cmdErr' = BudgetFlagError(budget)
            /\ cmdPc' = "exit"
            /\ UNCHANGED <<file, creds, apiClient, tsCached, srcMode, netMode,
                           tokEv, cmd, loginEv, call, requests, responses, ret,
                           exBody, exMsg, store, budget>>
       ELSE SearchStart(budget.account, CleanCustomerID(budget.account),
                        BudgetQuery(budget.campaign))

\* RunE from the return of its Search to the mutation (lines 228-239).
BudgetTake ==
    /\ cmd = CampaignsBudget
    /\ cmdPc = "run"
    /\ call.op = "none"
    /\ ret.op = "search"
    /\ budget' = [budget EXCEPT !.searched = TRUE,
                                !.searchRequests = requests,
                                !.searchErr = BudgetSearchError(ret.err, ret.rows),
                                !.rows = ret.rows]
    /\ cmdErr' = BudgetSearchError(ret.err, ret.rows)
    /\ cmdPc' = IF BudgetSearchError(ret.err, ret.rows) # "" THEN "exit" ELSE "run"
    /\ ret' = NoRet
    /\ requests' = <<>>
    /\ responses' = <<>>
    /\ UNCHANGED <<file, creds, apiClient, tsCached, srcMode, netMode, tokEv,
                   cmd, loginEv, call, exBody, exMsg, store>>

\* RunE: the mutation (lines 241-253).
BudgetMutate ==
    /\ cmd = CampaignsBudget
    /\ budget.searched
    /\ \E out \in NetOutcomes(netMode), ask \in AskChoices :
          \E src \in SrcChoices(ask) : \E sv \in SaveChoices(ask, src) :
             Mutate("campaignBudgets", budget.account,
                    CleanCustomerID(budget.account),
                    BudgetOps(CleanCustomerID(budget.account),
                              UnmarshalCampaignRow(budget.rows[1]).budgetID,
                              budget.amount),
                    out, ask, src, sv)

InitBudget ==
    /\ \E c \in CompleteRecords :
          /\ file = DataFile(MarshalCredentials(c), "0600")
          /\ creds = c
          /\ apiClient = New(c.DeveloperToken, c.ManagerCustomerID)
    /\ tsCached = FALSE
    /\ srcMode = "stable"
    /\ netMode = "budget"
    /\ tokEv = NoTokenEvent
    /\ cmd = CampaignsBudget
    /\ cmdPc = "run"
    /\ cmdErr = ""
    /\ loginEv = NoLoginEvent
    /\ call = NoCall
    /\ requests = <<>>
    /\ responses = <<>>
    /\ ret = NoRet
    /\ exBody = EmptyBody
    /\ exMsg = NotExtracted
    /\ store = NoStoreOp
    /\ \E account \in {NoID, PlainID, HyphenatedID}, campaign \in {"", "111"},
          amount \in {-1, 0, 5000000} :
          budget = [NoBudget EXCEPT !.account = account, !.campaign = campaign,
                                    !.amount = amount]

SpecBudget ==
    /\ InitBudget
    /\ [][BudgetStart \/ SearchPageStep \/ BudgetTake \/ BudgetMutate
            \/ CommandReturn]_vars

\* The flags do not pass the tests of campaigns budget.
BudgetFlagsRejected ==
    budget.account = NoID \/ budget.campaign = "" \/ budget.amount <= 0

\* The budget the first row of the search names.
ResolvedBudgetID == UnmarshalCampaignRow(budget.rows[1]).budgetID

\* C29: campaigns budget issues no request when --account or --campaign is
\* empty or --amount is not positive; otherwise it first searches for the
\* campaign under the account, and it calls MutateCampaignBudgets only when
\* that Search returned no error and a first row that decodes and names a
\* budget, with one update operation of mask amountMicros on that budget of
\* the account and the given amount.
C29_BudgetNeverMutatesUnresolved ==
    /\ BudgetFlagsRejected =>
          (requests = <<>> /\ call.op = "none" /\ ~budget.searched /\ ret.op = "none")
    /\ \A i \in 1..Len(budget.searchRequests) :
          /\ budget.searchRequests[i].path =
                <<"customers", CleanCustomerID(budget.account), "googleAds:search">>
          /\ budget.searchRequests[i].payload.query = BudgetQuery(budget.campaign)
    /\ (call.op = "search" \/ ret.op = "search") =>
          (~budget.searched /\ \A i \in 1..Len(requests) : Len(requests[i].path) = 3
                                 /\ requests[i].path[3] = "googleAds:search")
    /\ budget.searched =>
          /\ budget.searchRequests # <<>>
          /\ call.op = "none"
          /\ budget.searchErr # "" => (requests = <<>> /\ cmdPc = "exit" /\ cmdErr # "")
    /\ (budget.searched /\ requests # <<>>) =>
          /\ budget.searchErr = ""
          /\ budget.rows # <<>>
          /\ ~UnmarshalCampaignRow(budget.rows[1]).err
          /\ ResolvedBudgetID # ""
          /\ ret.op = "mutate"
          /\ Len(requests) = 1
          /\ requests[1].method = "POST"
          /\ requests[1].path =
                <<"customers", CleanCustomerID(budget.account), "campaignBudgets:mutate">>
          /\ Len(requests[1].payload.operations) = 1
          /\ requests[1].payload.operations[1].updateMask = "amountMicros"
          /\ requests[1].payload.operations[1].update.resourceName =
                <<"customers", CleanCustomerID(budget.account), "campaignBudgets",
                  ResolvedBudgetID>>
          /\ requests[1].payload.operations[1].update.amountMicros =
                ToString(budget.amount)

C29_Witness ==
    /\ cmdPc = "exit"
    /\ cmdErr = ""
    /\ ret.op = "mutate"
    /\ budget.account = HyphenatedID
    /\ Len(budget.searchRequests) = 2
    /\ Len(budget.rows) = 4
    /\ ResolvedBudgetID = "b7"
    /\ requests[1].payload.operations[1].update.amountMicros = "5000000"

====
